---------------------------- MODULE Spec2Model ----------------------------
(***************************************************************************)
(* drbdmanage server (src/drbdmanage/server.py): the open / reload / modify *)
(* / save / close transaction around the control volume, the serial number  *)
(* of a change generation, the mutators of the cluster configuration and    *)
(* the reading of the "drbdsetup events" stream.                            *)
(*                                                                          *)
(* One daemon runs per node; every daemon keeps its own in-memory copy of   *)
(* the configuration (mem) and the hash of the copy it last loaded or saved *)
(* (conf_hash); the control volume (disk) is shared.                        *)
(***************************************************************************)
EXTENDS Integers, FiniteSets, Sequences, TLC

(***************************************************************************)
(* Bounds of the model                                                      *)
(***************************************************************************)
\* serial numbers are unbounded in the program; the model stops counting here
MaxSerial == 6
\* configuration value max-node-id (default 31), scaled down
MaxNodeId == 1
\* configuration value max-port-nr (default 7999), scaled down
MaxPortNr == 7001
\* number of lines one call of drbd_event reads at most
MaxLines == 3
\* MinorNr.MINOR_NR_MAX (the largest minor number), scaled down
MaxMinorNr == 101
\* DrbdResource.MAX_RES_VOLS (the largest volume id), scaled down
MaxResVols == 1
\* the serial up to which the handlers of volumes are followed
MaxSerialVolumes == 9
\* failed attempts of one restart_events call to start the subprocess
MaxRetries == 2

\* configuration value min-port-nr
DEFAULT_MIN_PORT_NR == 7000
\* drbdmanage.consts: port requested as "auto" / allocation failed
RES_PORT_NR_AUTO == -1
RES_PORT_NR_ERROR == -2
\* configuration value min-minor-nr
DEFAULT_MIN_MINOR_NR == 100
\* storagecore.MinorNr: minor requested as automatic / allocation failed
MINOR_NR_AUTO == -1
MINOR_NR_ERROR == -2

\* the daemons, named by the node each one runs on (_instance_node_name)
Daemons == {"alpha", "beta"}
NodeNames == {"alpha", "beta"}
ResNames == {"r0"}

\* Assignment / DrbdNode / DrbdResource state flags (bit fields, as sets)
FLAG_DEPLOY == "DEPLOY"
FLAG_CONNECT == "CONNECT"
FLAG_DISKLESS == "DISKLESS"
FLAG_OVERWRITE == "OVERWRITE"
FLAG_DISCARD == "DISCARD"
FLAG_UPDATE == "UPDATE"
FLAG_REMOVE == "REMOVE"
FLAG_ATTACH == "ATTACH"
FLAG_RECONNECT == "RECONNECT"
TStateFlags ==
    {FLAG_DEPLOY, FLAG_CONNECT, FLAG_DISKLESS, FLAG_OVERWRITE, FLAG_DISCARD}

\* return codes (drbdmanage.exceptions)
DM_SUCCESS == "SUCCESS"
DM_ENOENT == "ENOENT"
DM_EEXIST == "EEXIST"
DM_EINVAL == "EINVAL"
DM_EPORT == "EPORT"
DM_ENODEID == "ENODEID"
DM_ENODECNT == "ENODECNT"
DM_ESECRETG == "ESECRETG"
DM_EPERSIST == "EPERSIST"
DM_ECTRLVOL == "ECTRLVOL"
DM_DEBUG == "DEBUG"
DM_EMINOR == "EMINOR"
DM_EVOLID == "EVOLID"

VARIABLES
    disk,        \* control volume: [conf, hash]
    lock,        \* set of daemons that hold the control volume open for writing
    mem,         \* mem[d]: _cluster_conf (serial), _nodes, _resources of daemon d
    conf_hash,   \* conf_hash[d]: _conf_hash
    change_open, \* change_open[d]: _change_open
    pc,          \* pc[d]: position of daemon d in the handler it runs
    persist,     \* persist[d]: the session begin_modify_conf returned
    rc,          \* rc[d]: result codes of the handler that returned last
    call,        \* call[d]: what the running handler observed (history)
    synced,      \* synced[d]: the configuration d last loaded or saved (history)
    evt,         \* state of the drbd_event callback
    proc         \* the events subprocess and the callbacks that watch its pipe

vars == <<disk, lock, mem, conf_hash, change_open, pc, persist, rc, call,
          synced, evt, proc>>

(***************************************************************************)
(* Configuration objects                                                    *)
(***************************************************************************)
NoHash == [kind |-> "none"]

\* the hash the persistence layer computes over the serialized configuration
Hash(conf) == [kind |-> "sha", of |-> conf]

\* a dictionary without entries
EmptyMap == [x \in {} |-> x]

\* class attributes of DrbdManageServer: _cluster_conf[SERIAL] = 1, no objects
ClassConf ==
    [serial |-> 1, nodes |-> EmptyMap, res |-> EmptyMap, assg |-> EmptyMap,
     vols |-> EmptyMap, vstate |-> EmptyMap]

\* a cluster of two nodes as init_node and create_node leave it
InitConf ==
    [serial |-> 3,
     nodes  |-> [n \in NodeNames |->
                   [node_id |-> IF n = "alpha" THEN 0 ELSE 1, state |-> {}]],
     res    |-> EmptyMap,
     assg   |-> EmptyMap,
     vols   |-> EmptyMap,
     vstate |-> EmptyMap]

\* f without the keys in ks / f with key k bound to v
Drop(f, ks) == [x \in (DOMAIN f) \ ks |-> f[x]]
Put(f, k, v) == [x \in (DOMAIN f) \cup {k} |-> IF x = k THEN v ELSE f[x]]
\* f with the keys of ks that it lacks bound to v
PutAll(f, ks, v) == [x \in (DOMAIN f) \cup ks |-> IF x \in DOMAIN f THEN f[x] ELSE v]

(***************************************************************************)
(* Serial numbers.  A handler works on m = [conf, open, calls, rets]: the   *)
(* in-memory configuration, _change_open, and (history) how often           *)
(* get_serial was called since begin_modify_conf and what it returned.      *)
(***************************************************************************)
peek_serial(m) == m.conf.serial

get_serial_always_new(m) ==
    [m EXCEPT !.open = TRUE,
              !.conf.serial = @ + 1,
              !.calls = @ + 1,
              !.rets = @ \cup {m.conf.serial + 1}]

get_serial(m) ==
    IF m.open = FALSE
    THEN [m EXCEPT !.open = TRUE,
                   !.conf.serial = peek_serial(m) + 1,
                   !.calls = @ + 1,
                   !.rets = @ \cup {peek_serial(m) + 1}]
    ELSE [m EXCEPT !.calls = @ + 1,
                   !.rets = @ \cup {peek_serial(m)}]

close_serial_keeps(open) == open

close_serial(open) == FALSE

\* an object of drbdcore takes a serial from the get_serial function it was
\* constructed with when it is created or when its state changes
new_serial(m) == get_serial(m)

(***************************************************************************)
(* Persistence                                                              *)
(***************************************************************************)
hashes_match_ignores_null(own_hash, cmp_hash) == own_hash = cmp_hash

hashes_match(own_hash, cmp_hash) ==
    IF own_hash # NoHash /\ cmp_hash # NoHash
    THEN own_hash = cmp_hash
    ELSE FALSE

persist_open_shared(holders, io_ok) == io_ok

\* persist.open(True): the exclusive lock of the control volume is granted
\* only while no other daemon holds it
persist_open(holders, io_ok) == io_ok /\ holders = {}

\* load_conf_data: the configuration and the hash as stored
load_conf_data(stored) == [conf |-> stored.conf, hash |-> stored.hash]

begin_modify_conf_no_reload(own_hash, own_conf, stored, opened, load_ok) ==
    [session |-> opened, conf |-> own_conf, hash |-> own_hash,
     reloaded |-> FALSE]

\* what begin_modify_conf leaves: the session (or none), the in-memory
\* configuration and hash, and whether the configuration was reloaded
begin_modify_conf(own_hash, own_conf, stored, opened, load_ok) ==
    IF opened
    THEN IF ~hashes_match(own_hash, stored.hash)
         THEN IF load_ok
              THEN [session  |-> TRUE,
                    conf     |-> load_conf_data(stored).conf,
                    hash     |-> load_conf_data(stored).hash,
                    reloaded |-> TRUE]
              ELSE \* persist.load raised: the session is closed again
                   [session |-> FALSE, conf |-> own_conf, hash |-> own_hash,
                    reloaded |-> FALSE]
         ELSE [session |-> TRUE, conf |-> own_conf, hash |-> own_hash,
               reloaded |-> FALSE]
    ELSE [session |-> FALSE, conf |-> own_conf, hash |-> own_hash,
          reloaded |-> FALSE]

\* result of a handler body: memory, images saved (in order), result codes
Result(m, img, codes) == [m |-> m, img |-> img, rc |-> codes]

\* save_conf_data, called with an open session: the image written (save
\* returns the new hash, which becomes _conf_hash), or PersistenceException
\* (the handler then reports DM_EPERSIST)
save_conf_data(m, save_ok, codes) ==
    LET m1 == [m EXCEPT !.log = Append(@, "save_conf_data")]
    IN  IF save_ok
        THEN Result(m1, <<m1.conf>>, codes)
        ELSE Result(m1, << >>, codes \o <<DM_EPERSIST>>)

\* if len(fn_rc) == 0: add_rc_entry(fn_rc, DM_SUCCESS, ...)
Finish(codes) == IF codes = << >> THEN <<DM_SUCCESS>> ELSE codes

\* what a running handler has observed so far (history)
NoCall ==
    [op |-> "none", equal0 |-> FALSE, reloaded |-> FALSE, serial0 |-> 0,
     serial1 |-> 0, changed |-> FALSE, calls |-> 0, rets |-> {},
     saved |-> FALSE, base_ok |-> TRUE, overwrite0 |-> {}, req |-> {},
     log |-> << >>]

(***************************************************************************)
(* Allocation of numbers                                                    *)
(***************************************************************************)
\* utils.get_free_number: the smallest number of min_nr..max_nr not in use,
\* or -1 when every number is taken
get_free_number(min_nr, max_nr, used) ==
    IF (min_nr..max_nr) \ used = {}
    THEN -1
    ELSE CHOOSE x \in (min_nr..max_nr) \ used :
             \A y \in (min_nr..max_nr) \ used : x <= y

get_free_port_nr_counts(conf) ==
    IF DEFAULT_MIN_PORT_NR + Cardinality(DOMAIN conf.res) > MaxPortNr
    THEN RES_PORT_NR_ERROR
    ELSE DEFAULT_MIN_PORT_NR + Cardinality(DOMAIN conf.res)

get_free_port_nr(conf) ==
    LET port_list == {conf.res[r].port : r \in DOMAIN conf.res}
                         \cap (DEFAULT_MIN_PORT_NR..MaxPortNr)
        port == get_free_number(DEFAULT_MIN_PORT_NR, MaxPortNr, port_list)
    IN  IF port = -1 THEN RES_PORT_NR_ERROR ELSE port

AssgOfRes(conf, r) == {k \in DOMAIN conf.assg : k[2] = r}
AssgOfNode(conf, n) == {k \in DOMAIN conf.assg : k[1] = n}

\* the volumes <<resource, volume id>> of a resource and the volume states
\* <<node, resource, volume id>> of an assignment
VolsOfRes(conf, r) == {v \in DOMAIN conf.vols : v[1] = r}
VolStatesOf(conf, k) == {s \in DOMAIN conf.vstate : <<s[1], s[2]>> = k}

get_free_minor_nr(conf) ==
    LET minor_list == {conf.vols[v].minor : v \in DOMAIN conf.vols}
                          \cap (DEFAULT_MIN_MINOR_NR..MaxMinorNr)
        minor_nr == get_free_number(DEFAULT_MIN_MINOR_NR, MaxMinorNr, minor_list)
    IN  IF minor_nr = -1 THEN MINOR_NR_ERROR ELSE minor_nr

get_free_volume_id(conf, r) ==
    LET id_list == {v[2] : v \in VolsOfRes(conf, r)} \cap (0..MaxResVols)
    IN  get_free_number(0, MaxResVols, id_list)

get_free_node_id_ignores_used(conf, r) == get_free_number(0, MaxNodeId, {})

get_free_node_id(conf, r) ==
    LET id_list == {conf.assg[k].node_id : k \in AssgOfRes(conf, r)}
                       \cap (0..MaxNodeId)
    IN  get_free_number(0, MaxNodeId, id_list)

get_free_drbdctrl_node_id_ignores_used(conf) == get_free_number(0, MaxNodeId, {})

get_free_drbdctrl_node_id(conf) ==
    LET id_list == {conf.nodes[n].node_id : n \in DOMAIN conf.nodes}
                       \cap (0..MaxNodeId)
    IN  get_free_number(0, MaxNodeId, id_list)

(***************************************************************************)
(* Objects of drbdcore (Assignment, DrbdNode, DrbdResource): a change of    *)
(* an object's state takes a serial; container operations do not.           *)
(***************************************************************************)
\* assignment k gets the target state ts
set_tstate(m, k, ts) ==
    IF m.conf.assg[k].tstate = ts
    THEN m
    ELSE new_serial([m EXCEPT !.conf.assg[k].tstate = ts])

set_cstate(m, k, cs) ==
    IF m.conf.assg[k].cstate = cs
    THEN m
    ELSE new_serial([m EXCEPT !.conf.assg[k].cstate = cs])

set_tstate_flags(m, k, flags) == set_tstate(m, k, m.conf.assg[k].tstate \cup flags)
clear_tstate_flags(m, k, flags) == set_tstate(m, k, m.conf.assg[k].tstate \ flags)
set_cstate_flags(m, k, flags) == set_cstate(m, k, m.conf.assg[k].cstate \cup flags)
clear_cstate_flags(m, k, flags) == set_cstate(m, k, m.conf.assg[k].cstate \ flags)

is_deployed(conf, k) == FLAG_DEPLOY \in conf.assg[k].cstate

\* Assignment.undeploy / disconnect / deploy_client
undeploy(m, k) == clear_tstate_flags(m, k, {FLAG_DEPLOY})
disconnect_assg(m, k) == clear_tstate_flags(m, k, {FLAG_CONNECT})
deploy_client(m, k) == set_tstate_flags(m, k, {FLAG_DEPLOY, FLAG_DISKLESS})

\* for assg in ...: assg.undeploy()
RECURSIVE undeploy_all(_, _)
undeploy_all(m, ks) ==
    IF ks = {}
    THEN m
    ELSE LET k == CHOOSE x \in ks : TRUE
         IN  undeploy_all(undeploy(m, k), ks \ {k})

\* Assignment.remove: the assignment leaves its node and its resource
remove_assg(m, ks) ==
    [m EXCEPT !.conf.assg = Drop(@, ks),
              !.conf.vstate = Drop(@, {s \in DOMAIN @ : <<s[1], s[2]>> \in ks})]

\* a resource leaves _resources, its volumes with it
drop_res(m, rs) ==
    [m EXCEPT !.conf.res = Drop(@, rs),
              !.conf.vols = Drop(@, {v \in DOMAIN @ : v[1] \in rs})]

\* Assignment.update_volume_states: a volume state for every volume of the
\* resource, none for a volume the resource does not have
update_volume_states(m, k) ==
    [m EXCEPT !.conf.vstate =
        PutAll(Drop(@, {s \in VolStatesOf(m.conf, k) :
                           <<s[2], s[3]>> \notin DOMAIN m.conf.vols}),
               {<<k[1], k[2], v[2]>> : v \in VolsOfRes(m.conf, k[2])},
               [cstate |-> {}, tstate |-> {}])]

\* DrbdVolumeState: the target / current state of the volume states ss
set_vol_tstate(m, ss, ts) ==
    IF \A s \in ss : m.conf.vstate[s].tstate = ts[s]
    THEN m
    ELSE new_serial([m EXCEPT !.conf.vstate =
                        [s \in DOMAIN @ |->
                            IF s \in ss THEN [@[s] EXCEPT !.tstate = ts[s]]
                            ELSE @[s]]])

set_vol_cstate(m, ss, cs) ==
    IF \A s \in ss : m.conf.vstate[s].cstate = cs[s]
    THEN m
    ELSE new_serial([m EXCEPT !.conf.vstate =
                        [s \in DOMAIN @ |->
                            IF s \in ss THEN [@[s] EXCEPT !.cstate = cs[s]]
                            ELSE @[s]]])

\* DrbdNode.set_state / DrbdNode.remove / DrbdResource.remove
set_node_state(m, n, st) ==
    IF m.conf.nodes[n].state = st
    THEN m
    ELSE new_serial([m EXCEPT !.conf.nodes[n].state = st])

node_remove(m, n) == set_node_state(m, n, m.conf.nodes[n].state \cup {FLAG_REMOVE})

res_remove(m, r) ==
    IF FLAG_REMOVE \in m.conf.res[r].state
    THEN m
    ELSE new_serial([m EXCEPT !.conf.res[r].state = @ \cup {FLAG_REMOVE}])

\* _cluster_nodes_update: every node but the instance node is flagged UPDATE
flag_update(m, n) == set_node_state(m, n, m.conf.nodes[n].state \cup {FLAG_UPDATE})
\* for peer_node in self._nodes.itervalues(): ...
RECURSIVE flag_update_all(_, _)
flag_update_all(m, ks) ==
    IF ks = {}
    THEN m
    ELSE LET k == CHOOSE x \in ks : TRUE
         IN  flag_update_all(flag_update(m, k), ks \ {k})

cluster_nodes_update(m, inst) ==
    flag_update_all(m, (DOMAIN m.conf.nodes) \ {inst})

(***************************************************************************)
(* cleanup and the reconciler pass                                          *)
(***************************************************************************)
NoDeploy_target_only(conf, k) == FLAG_DEPLOY \notin conf.assg[k].tstate

NoDeploy(conf, k) ==
    /\ FLAG_DEPLOY \notin conf.assg[k].cstate
    /\ FLAG_DEPLOY \notin conf.assg[k].tstate

\* the configuration file of the control resource is written anew from the
\* nodes; drbdadm adjusts the control resource (an I/O error of either is
\* logged or ignored)
configure_drbdctrl(m) == [m EXCEPT !.ctl = Append(@, "configure")]
adjust_drbdctrl(m) == [m EXCEPT !.ctl = Append(@, "adjust")]

\* resource.iterate_assignments(): the assignment of the node m.iter.first
\* comes first
RECURSIVE AssgOrder(_, _)
AssgOrder(ks, first) ==
    IF ks = {}
    THEN << >>
    ELSE LET k == IF \E x \in ks : x[1] = first
                  THEN CHOOSE x \in ks : x[1] = first
                  ELSE CHOOSE x \in ks : TRUE
         IN  <<k>> \o AssgOrder(ks \ {k}, first)

\* cleanup, the volumes marked for removal: the volume states of one
\* assignment.  st.volumes are the volumes still listed for removal,
\* removable the volume states collected so far; the collected states are
\* removed after every volume state that is looked at, and a live iterator
\* over the volume states raises once one of them is gone
RECURSIVE sweep_states(_, _, _, _)
sweep_states(st, k, ids, removable) ==
    IF ids = {} \/ st.raised
    THEN st
    ELSE LET v == CHOOSE x \in ids : \A y \in ids : x <= y
             s == <<k[1], k[2], v>>
             listed == v \in st.volumes
             deployed == FLAG_DEPLOY \in st.m.conf.vstate[s].cstate
             volumes == IF listed /\ deployed THEN st.volumes \ {v} ELSE st.volumes
             collected == IF listed /\ ~deployed THEN removable \cup {s} ELSE removable
             m1 == [st.m EXCEPT !.conf.vstate = Drop(@, collected)]
         IN  sweep_states([m |-> m1, volumes |-> volumes,
                           raised |-> st.m.iter.live /\ collected # {}],
                          k, ids \ {v}, collected)

\* ... the assignments of one resource
RECURSIVE sweep_assignments(_, _)
sweep_assignments(st, ks) ==
    IF ks = << >> \/ st.raised
    THEN st
    ELSE sweep_assignments(
             sweep_states(st, Head(ks),
                          {s[3] : s \in VolStatesOf(st.m.conf, Head(ks))}, {}),
             Tail(ks))

\* ... the resources; the volumes that stay listed leave the resource
RECURSIVE sweep_volumes(_, _)
sweep_volumes(st, rs) ==
    IF rs = {} \/ st.raised
    THEN st
    ELSE LET r == CHOOSE x \in rs : TRUE
             listed == {v[2] : v \in {x \in VolsOfRes(st.m.conf, r) :
                                          FLAG_REMOVE \in st.m.conf.vols[x].state}}
             st1 == sweep_assignments(
                        [st EXCEPT !.volumes = listed],
                        AssgOrder(AssgOfRes(st.m.conf, r), st.m.iter.first))
             st2 == IF st1.raised
                    THEN st1
                    ELSE [st1 EXCEPT !.m.conf.vols =
                             Drop(@, {<<r, v>> : v \in st1.volumes})]
         IN  sweep_volumes(st2, rs \ {r})

\* cleanup: assignments that are undeployed and not to be deployed go; then
\* nodes marked REMOVE that have no assignment left, volume states that are
\* undeployed and not to be deployed, volumes marked REMOVE that no
\* assignment has deployed, resources marked REMOVE without assignments.
\* An exception ends the cleanup where it is raised.
cleanup_marked_nodes(m, inst) ==
    LET m1 == remove_assg(m, {k \in DOMAIN m.conf.assg : NoDeploy(m.conf, k)})
        gone_nodes == {n \in DOMAIN m1.conf.nodes :
                          FLAG_REMOVE \in m1.conf.nodes[n].state}
        m2 == [m1 EXCEPT !.conf.nodes = Drop(@, gone_nodes)]
        m3 == IF gone_nodes # {}
              THEN cluster_nodes_update(adjust_drbdctrl(configure_drbdctrl(m2)), inst)
              ELSE m2
        m4 == [m3 EXCEPT !.conf.vstate =
                  Drop(@, {s \in DOMAIN @ :
                              /\ FLAG_DEPLOY \notin @[s].cstate
                              /\ FLAG_DEPLOY \notin @[s].tstate})]
        st == sweep_volumes([m |-> m4, volumes |-> {}, raised |-> FALSE],
                            DOMAIN m4.conf.res)
        gone_res == {r \in DOMAIN st.m.conf.res :
                        /\ FLAG_REMOVE \in st.m.conf.res[r].state
                        /\ AssgOfRes(st.m.conf, r) = {}}
    IN  IF st.raised THEN st.m ELSE drop_res(st.m, gone_res)

cleanup(m, inst) ==
    LET m1 == remove_assg(m, {k \in DOMAIN m.conf.assg : NoDeploy(m.conf, k)})
        gone_nodes == {n \in DOMAIN m1.conf.nodes :
                          /\ FLAG_REMOVE \in m1.conf.nodes[n].state
                          /\ AssgOfNode(m1.conf, n) = {}}
        m2 == [m1 EXCEPT !.conf.nodes = Drop(@, gone_nodes)]
        m3 == IF gone_nodes # {}
              THEN cluster_nodes_update(adjust_drbdctrl(configure_drbdctrl(m2)), inst)
              ELSE m2
        m4 == [m3 EXCEPT !.conf.vstate =
                  Drop(@, {s \in DOMAIN @ :
                              /\ FLAG_DEPLOY \notin @[s].cstate
                              /\ FLAG_DEPLOY \notin @[s].tstate})]
        st == sweep_volumes([m |-> m4, volumes |-> {}, raised |-> FALSE],
                            DOMAIN m4.conf.res)
        gone_res == {r \in DOMAIN st.m.conf.res :
                        /\ FLAG_REMOVE \in st.m.conf.res[r].state
                        /\ AssgOfRes(st.m.conf, r) = {}}
    IN  IF st.raised THEN st.m ELSE drop_res(st.m, gone_res)

\* DrbdManager: one assignment of the instance node is driven towards its
\* target state; cstate changes only if the backend and drbdadm succeed
reconcile_assg(m, k) ==
    LET a == m.conf.assg[k]
        ss == VolStatesOf(m.conf, k)
    IN  IF FLAG_DEPLOY \in a.tstate
        THEN set_vol_cstate(
                 set_cstate(m, k, {FLAG_DEPLOY} \cup (a.tstate \cap {FLAG_CONNECT})),
                 ss,
                 [s \in ss |-> m.conf.vstate[s].tstate
                                   \cap {FLAG_DEPLOY, FLAG_ATTACH}])
        ELSE set_vol_cstate(set_cstate(m, k, {}), ss, [s \in ss |-> {}])

\* the assignments of a node, one after the other
RECURSIVE reconcile_all(_, _)
reconcile_all(m, ks) ==
    IF ks = {}
    THEN m
    ELSE LET k == CHOOSE x \in ks : TRUE
         IN  reconcile_all(reconcile_assg(m, k), ks \ {k})

reconcile_some_aborts(m, inst, failing) ==
    IF failing \cap AssgOfNode(m.conf, inst) # {}
    THEN m
    ELSE reconcile_all(m, AssgOfNode(m.conf, inst))

\* One reconciler pass in which the backend fails for the assignments in
\* failing: a failed assignment is left as it is, the others are reconciled
reconcile_some(m, inst, failing) ==
    reconcile_all(m, AssgOfNode(m.conf, inst) \ failing)

\* DrbdManager.perform_changes(): the assignments of the instance node, then
\* the deletions
reconcile(m, inst, ok) ==
    reconcile_some(m, inst, IF ok THEN {} ELSE AssgOfNode(m.conf, inst))

perform_changes_some_keeps(m, inst, failing) ==
    reconcile_some([m EXCEPT !.log = Append(@, "perform_changes")], inst, failing)

perform_changes_some(m, inst, failing) ==
    LET m1 == [m EXCEPT !.log = Append(@, "perform_changes")]
    IN  cleanup(reconcile_some(m1, inst, failing), inst)

perform_changes(m, inst, ok) ==
    perform_changes_some(m, inst, IF ok THEN {} ELSE AssgOfNode(m.conf, inst))

(***************************************************************************)
(* Handler bodies, entered with an open session                             *)
(***************************************************************************)
\* _create_node
create_node_sub(m, inst, node_name, has_addr, ctrl_ok) ==
    IF node_name \in DOMAIN m.conf.nodes
    THEN [m |-> m, rc |-> DM_EEXIST]
    ELSE IF ~has_addr
    THEN [m |-> m, rc |-> DM_EINVAL]
    ELSE LET node_id == get_free_drbdctrl_node_id(m.conf)
         IN  IF node_id = -1
             THEN [m |-> m, rc |-> DM_ENODEID]
             ELSE LET m1 == new_serial(m)
                      m2 == [m1 EXCEPT !.conf.nodes =
                                Put(@, node_name,
                                    [node_id |-> node_id, state |-> {}])]
                      m3 == cluster_nodes_update(m2, inst)
                  IN  [m |-> m3,
                       rc |-> IF ctrl_ok THEN DM_SUCCESS ELSE DM_ECTRLVOL]

create_node(m, inst, node_name, has_addr, ctrl_ok, save_ok) ==
    LET sub == create_node_sub(m, inst, node_name, has_addr, ctrl_ok)
    IN  IF sub.rc \in {DM_SUCCESS, DM_ECTRLVOL}
        THEN save_conf_data(sub.m, save_ok, << >>)
        ELSE Result(sub.m, << >>, <<sub.rc>>)

\* init_node clears the configuration, with or without a session
cleared(m) ==
    [m EXCEPT !.conf.nodes = EmptyMap, !.conf.res = EmptyMap,
              !.conf.assg = EmptyMap, !.conf.vols = EmptyMap,
              !.conf.vstate = EmptyMap]

init_node(m, inst, name, has_addr, ctrl_ok, save_ok) ==
    LET sub == create_node_sub(cleared(m), inst, name, has_addr, ctrl_ok)
    IN  IF sub.rc \in {DM_SUCCESS, DM_ECTRLVOL}
        THEN save_conf_data(sub.m, save_ok, << >>)
        ELSE Result(sub.m, << >>, <<sub.rc>>)

remove_node_keeps_deploy(m, inst, node_name, force, ok, save_ok) ==
    IF node_name \notin DOMAIN m.conf.nodes
    THEN Result(m, << >>, <<DM_ENOENT>>)
    ELSE IF ~force /\ AssgOfNode(m.conf, node_name) # {}
    THEN LET m2 == node_remove(m, node_name)
             m3 == perform_changes(m2, inst, ok)
         IN  save_conf_data(m3, save_ok, << >>)
    ELSE LET m1 == remove_assg(m, AssgOfNode(m.conf, node_name))
             m2 == [m1 EXCEPT !.conf.nodes = Drop(@, {node_name})]
             m3 == cluster_nodes_update(m2, inst)
         IN  save_conf_data(m3, save_ok, << >>)

remove_node_keeps_assignments(m, inst, node_name, force, ok, save_ok) ==
    IF node_name \notin DOMAIN m.conf.nodes
    THEN Result(m, << >>, <<DM_ENOENT>>)
    ELSE IF ~force /\ AssgOfNode(m.conf, node_name) # {}
    THEN LET m1 == undeploy_all(m, AssgOfNode(m.conf, node_name))
             m2 == node_remove(m1, node_name)
             m3 == perform_changes(m2, inst, ok)
         IN  save_conf_data(m3, save_ok, << >>)
    ELSE LET m2 == [m EXCEPT !.conf.nodes = Drop(@, {node_name})]
             m3 == cluster_nodes_update(m2, inst)
         IN  save_conf_data(m3, save_ok, << >>)

remove_node(m, inst, node_name, force, ok, save_ok) ==
    IF node_name \notin DOMAIN m.conf.nodes
    THEN Result(m, << >>, <<DM_ENOENT>>)
    ELSE IF ~force /\ AssgOfNode(m.conf, node_name) # {}
    THEN LET m1 == undeploy_all(m, AssgOfNode(m.conf, node_name))
             m2 == node_remove(m1, node_name)
             m3 == perform_changes(m2, inst, ok)
         IN  save_conf_data(m3, save_ok, << >>)
    ELSE LET m1 == remove_assg(m, AssgOfNode(m.conf, node_name))
             m2 == [m1 EXCEPT !.conf.nodes = Drop(@, {node_name})]
             m3 == cluster_nodes_update(m2, inst)
         IN  save_conf_data(m3, save_ok, << >>)

create_resource(m, res_name, port_prop, secret_ok, save_ok) ==
    IF res_name \in DOMAIN m.conf.res
    THEN Result(m, << >>, <<DM_EEXIST>>)
    ELSE IF ~secret_ok
    THEN Result(m, << >>, <<DM_ESECRETG>>)
    ELSE LET port == IF port_prop = RES_PORT_NR_AUTO
                     THEN get_free_port_nr(m.conf)
                     ELSE port_prop
         IN  IF port < 1 \/ port > 65535
             THEN Result(m, << >>, <<DM_EPORT>>)
             ELSE LET m1 == new_serial(m)
                      m2 == [m1 EXCEPT !.conf.res =
                                Put(@, res_name, [port |-> port, state |-> {}])]
                  IN  save_conf_data(m2, save_ok, << >>)

remove_resource(m, inst, res_name, force, ok, save_ok) ==
    IF res_name \notin DOMAIN m.conf.res
    THEN Result(m, << >>, <<DM_ENOENT>>)
    ELSE IF ~force /\ AssgOfRes(m.conf, res_name) # {}
    THEN LET m1 == undeploy_all(m, AssgOfRes(m.conf, res_name))
             m2 == res_remove(m1, res_name)
             m3 == perform_changes(m2, inst, ok)
         IN  save_conf_data(m3, save_ok, << >>)
    ELSE LET m1 == remove_assg(m, AssgOfRes(m.conf, res_name))
             m2 == drop_res(m1, {res_name})
         IN  save_conf_data(m2, save_ok, << >>)

\* MinorNr(minor): a minor number is a device number of the kernel
MinorNrValid(minor) == minor \in 0..MaxMinorNr

\* create_volume: minor_prop is the minor asked for, MINOR_NR_AUTO if none
create_volume(m, inst, res_name, minor_prop, ok, save_ok) ==
    IF res_name \notin DOMAIN m.conf.res
    THEN Result(m, << >>, <<DM_ENOENT>>)
    ELSE LET minor == IF minor_prop = MINOR_NR_AUTO
                      THEN get_free_minor_nr(m.conf)
                      ELSE minor_prop
             vol_id == get_free_volume_id(m.conf, res_name)
         IN  IF minor = MINOR_NR_ERROR
             THEN Result(m, << >>, <<DM_EMINOR>>)
             ELSE IF vol_id = -1
             THEN Result(m, << >>, <<DM_EVOLID>>)
             ELSE IF ~MinorNrValid(minor)
             THEN Result(get_serial(m), << >>, <<DM_EMINOR>>)
             ELSE LET m1 == new_serial(get_serial(m))
                      m2 == [m1 EXCEPT !.conf.vols =
                                Put(@, <<res_name, vol_id>>,
                                    [minor |-> minor, state |-> {}])]
                      ks == AssgOfRes(m2.conf, res_name)
                      m3 == [m2 EXCEPT !.conf.vstate =
                                PutAll(@, {<<k[1], k[2], v[2]>> :
                                              k \in ks, v \in VolsOfRes(m2.conf, res_name)},
                                       [cstate |-> {}, tstate |-> {}])]
                      new == {<<k[1], k[2], vol_id>> : k \in ks}
                      \* vol_st.deploy(); vol_st.attach()
                      m4 == set_vol_tstate(m3, new,
                                [s \in new |-> {FLAG_DEPLOY, FLAG_ATTACH}])
                  IN  save_conf_data(perform_changes(m4, inst, ok), save_ok, << >>)

\* DrbdVolume.remove()
vol_remove(m, v) ==
    IF FLAG_REMOVE \in m.conf.vols[v].state
    THEN m
    ELSE new_serial([m EXCEPT !.conf.vols[v].state = @ \cup {FLAG_REMOVE}])

remove_volume_keeps_states(m, inst, res_name, vol_id, force, ok, save_ok) ==
    IF res_name \notin DOMAIN m.conf.res
    THEN Result(m, << >>, <<DM_ENOENT>>)
    ELSE IF <<res_name, vol_id>> \notin DOMAIN m.conf.vols
    THEN Result(m, << >>, <<DM_ENOENT>>)
    ELSE LET ss == {s \in DOMAIN m.conf.vstate : <<s[2], s[3]>> = <<res_name, vol_id>>}
         IN  IF ~force /\ AssgOfRes(m.conf, res_name) # {}
             THEN LET m1 == set_vol_tstate(m, ss,
                                [s \in ss |-> m.conf.vstate[s].tstate \ {FLAG_DEPLOY}])
                      m2 == vol_remove(m1, <<res_name, vol_id>>)
                  IN  save_conf_data(perform_changes(m2, inst, ok), save_ok, << >>)
             ELSE LET m1 == [m EXCEPT !.conf.vols = Drop(@, {<<res_name, vol_id>>})]
                  IN  save_conf_data(m1, save_ok, << >>)

remove_volume(m, inst, res_name, vol_id, force, ok, save_ok) ==
    IF res_name \notin DOMAIN m.conf.res
    THEN Result(m, << >>, <<DM_ENOENT>>)
    ELSE IF <<res_name, vol_id>> \notin DOMAIN m.conf.vols
    THEN Result(m, << >>, <<DM_ENOENT>>)
    ELSE LET ss == {s \in DOMAIN m.conf.vstate : <<s[2], s[3]>> = <<res_name, vol_id>>}
         IN  IF ~force /\ AssgOfRes(m.conf, res_name) # {}
             THEN LET m1 == set_vol_tstate(m, ss,
                                [s \in ss |-> m.conf.vstate[s].tstate \ {FLAG_DEPLOY}])
                      m2 == vol_remove(m1, <<res_name, vol_id>>)
                  IN  save_conf_data(perform_changes(m2, inst, ok), save_ok, << >>)
             ELSE LET m1 == [m EXCEPT !.conf.vols = Drop(@, {<<res_name, vol_id>>}),
                                      !.conf.vstate = Drop(@, ss)]
                  IN  save_conf_data(m1, save_ok, << >>)

\* _assign
assign_sub(m, node_name, res_name, cstate, tstate) ==
    LET m1 == get_serial(m)
        node_id == get_free_node_id(m1.conf, res_name)
    IN  IF node_id = -1
        THEN [m |-> m1, rc |-> DM_ENODEID]
        ELSE LET m2 == new_serial(m1)
                 k == <<node_name, res_name>>
                 m3 == [m2 EXCEPT !.conf.assg =
                           Put(@, k, [node_id |-> node_id, cstate |-> cstate,
                                      tstate |-> tstate])]
                 m4 == update_volume_states(m3, k)
                 \* vol_state.deploy(), and attach() unless diskless
                 want == {FLAG_DEPLOY} \cup
                         (IF FLAG_DISKLESS \in tstate THEN {} ELSE {FLAG_ATTACH})
             IN  [m  |-> set_vol_tstate(m4, VolStatesOf(m4.conf, k),
                                        [s \in VolStatesOf(m4.conf, k) |-> want]),
                  rc |-> DM_SUCCESS]

\* the assignments of a configuration whose target state has OVERWRITE
Overwriting(conf) ==
    {k \in DOMAIN conf.assg : FLAG_OVERWRITE \in conf.assg[k].tstate}

clear_overwrite_skipped(m, k) == m

clear_overwrite(m, k) == clear_tstate_flags(m, k, {FLAG_OVERWRITE})

\* for assg in resource.iterate_assignments(): clear OVERWRITE
RECURSIVE clear_overwrite_all(_, _)
clear_overwrite_all(m, ks) ==
    IF ks = {}
    THEN m
    ELSE LET k == CHOOSE x \in ks : TRUE
         IN  clear_overwrite_all(clear_overwrite(m, k), ks \ {k})

\* assign; flags are the flags the properties switch on
assign(m, inst, node_name, res_name, flags, ok, save_ok) ==
    IF node_name \notin DOMAIN m.conf.nodes \/ res_name \notin DOMAIN m.conf.res
    THEN Result(m, << >>, <<DM_ENOENT>>)
    ELSE IF <<node_name, res_name>> \in DOMAIN m.conf.assg
    THEN Result(m, << >>, <<DM_EEXIST>>)
    ELSE IF FLAG_OVERWRITE \in flags /\ FLAG_DISKLESS \in flags
    THEN Result(m, << >>, <<DM_EINVAL>>)
    ELSE IF FLAG_OVERWRITE \in flags /\ FLAG_DISCARD \in flags
    THEN Result(m, << >>, <<DM_EINVAL>>)
    ELSE LET m1 == IF FLAG_OVERWRITE \in flags
                   THEN clear_overwrite_all(m, AssgOfRes(m.conf, res_name))
                   ELSE m
             tstate == {FLAG_DEPLOY} \cup
                       (flags \cap {FLAG_OVERWRITE, FLAG_DISCARD,
                                    FLAG_CONNECT, FLAG_DISKLESS})
             sub == assign_sub(m1, node_name, res_name, {}, tstate)
         IN  IF sub.rc = DM_SUCCESS
             THEN save_conf_data(perform_changes(sub.m, inst, ok), save_ok, << >>)
             ELSE Result(sub.m, << >>, <<sub.rc>>)

unassign_sub_removes(m, inst, k, force) ==
    cleanup(remove_assg(get_serial(m), {k}), inst)

\* _unassign
unassign_sub(m, inst, k, force) ==
    LET m1 == get_serial(m)
        m2 == IF ~force /\ is_deployed(m1.conf, k)
              THEN undeploy(disconnect_assg(m1, k), k)
              ELSE remove_assg(m1, {k})
    IN  cleanup(m2, inst)

\* unassign with the save ahead of the reconcile pass
unassign_saves_first(m, inst, node_name, res_name, force, ok, save_ok) ==
    IF node_name \notin DOMAIN m.conf.nodes
    THEN \* KeyError is answered with ENOENT, then the unbound node is read
         Result(m, << >>, <<DM_ENOENT, DM_DEBUG>>)
    ELSE IF res_name \notin DOMAIN m.conf.res
    THEN Result(m, << >>, <<DM_ENOENT, DM_DEBUG>>)
    ELSE IF <<node_name, res_name>> \notin DOMAIN m.conf.assg
    THEN Result(m, << >>, <<DM_ENOENT>>)
    ELSE LET m1 == unassign_sub(m, inst, <<node_name, res_name>>, force)
             r == save_conf_data(m1, save_ok, << >>)
         IN  [r EXCEPT !.m = perform_changes(r.m, inst, ok)]

unassign(m, inst, node_name, res_name, force, ok, save_ok) ==
    IF node_name \notin DOMAIN m.conf.nodes
    THEN \* KeyError is answered with ENOENT, then the unbound node is read
         Result(m, << >>, <<DM_ENOENT, DM_DEBUG>>)
    ELSE IF res_name \notin DOMAIN m.conf.res
    THEN Result(m, << >>, <<DM_ENOENT, DM_DEBUG>>)
    ELSE IF <<node_name, res_name>> \notin DOMAIN m.conf.assg
    THEN Result(m, << >>, <<DM_ENOENT>>)
    ELSE LET m1 == unassign_sub(m, inst, <<node_name, res_name>>, force)
         IN  save_conf_data(perform_changes(m1, inst, ok), save_ok, << >>)

\* connect: a PersistenceException (no session, failed save) is passed over
\* without a return code
connect(m, inst, node_name, res_name, reconnect, ok, save_ok) ==
    IF node_name \notin DOMAIN m.conf.nodes \/ res_name \notin DOMAIN m.conf.res
    THEN Result(m, << >>, <<DM_ENOENT>>)
    ELSE IF <<node_name, res_name>> \notin DOMAIN m.conf.assg
    THEN Result(m, << >>, <<DM_ENOENT>>)
    ELSE LET k == <<node_name, res_name>>
             m1 == set_tstate_flags(m, k, IF reconnect THEN {FLAG_RECONNECT}
                                                      ELSE {FLAG_CONNECT})
             m2 == perform_changes(m1, inst, ok)
             \* except PersistenceException: pass
         IN  [save_conf_data(m2, save_ok, << >>) EXCEPT !.rc = << >>]

\* attach: DM_SUCCESS is added after the save; a PersistenceException is
\* passed over without a return code
attach(m, inst, node_name, res_name, vol_id, ok, save_ok) ==
    IF node_name \notin DOMAIN m.conf.nodes \/ res_name \notin DOMAIN m.conf.res
    THEN Result(m, << >>, <<DM_ENOENT>>)
    ELSE IF <<node_name, res_name>> \notin DOMAIN m.conf.assg
    THEN Result(m, << >>, <<DM_ENOENT>>)
    ELSE IF <<node_name, res_name, vol_id>> \notin DOMAIN m.conf.vstate
    THEN Result(m, << >>, <<DM_ENOENT>>)
    ELSE LET s == <<node_name, res_name, vol_id>>
             m1 == set_vol_tstate(m, {s},
                       [x \in {s} |-> m.conf.vstate[s].tstate \cup {FLAG_ATTACH}])
             m2 == perform_changes(m1, inst, ok)
             \* except PersistenceException: pass
         IN  [save_conf_data(m2, save_ok, << >>) EXCEPT
                 !.rc = IF save_ok THEN <<DM_SUCCESS>> ELSE << >>]

modify_state(m, inst, node_name, res_name, cstate_clear_mask, cstate_set_mask, tstate_clear_mask, tstate_set_mask, ok, save_ok) ==
    IF node_name \notin DOMAIN m.conf.nodes
    THEN Result(m, << >>, <<DM_ENOENT>>)
    ELSE IF <<node_name, res_name>> \notin DOMAIN m.conf.assg
    THEN Result(m, << >>, <<DM_ENOENT>>)
    ELSE LET k == <<node_name, res_name>>
             \* OVERWRITE overrides DISCARD
             t_clear == IF FLAG_OVERWRITE \in tstate_set_mask
                        THEN tstate_clear_mask \cup {FLAG_DISCARD}
                        ELSE IF FLAG_DISCARD \in tstate_set_mask
                        THEN tstate_clear_mask \cup {FLAG_OVERWRITE}
                        ELSE tstate_clear_mask
             t_set == IF FLAG_OVERWRITE \in tstate_set_mask
                      THEN tstate_set_mask \ {FLAG_DISCARD}
                      ELSE tstate_set_mask
             m1 == clear_cstate_flags(m, k, cstate_clear_mask)
             m2 == set_cstate_flags(m1, k, cstate_set_mask)
             m3 == clear_tstate_flags(m2, k, t_clear)
             m4 == set_tstate_flags(m3, k, t_set)
             m5 == IF FLAG_OVERWRITE \in t_set
                   THEN clear_overwrite_all(m4, AssgOfRes(m4.conf, res_name) \ {k})
                   ELSE m4
         IN  save_conf_data(perform_changes(m5, inst, ok), save_ok, << >>)

\* DrbdResource.assigned_count: the assignments meant to hold a replica
assigned_count(conf, r) ==
    Cardinality({k \in AssgOfRes(conf, r) :
                    /\ FLAG_DEPLOY \in conf.assg[k].tstate
                    /\ FLAG_DISKLESS \notin conf.assg[k].tstate})

\* the calls of _assign that auto_deploy and _site_clients make; the result
\* code of _assign is not looked at
assign_replica(m, k) ==
    assign_sub(m, k[1], k[2], {}, {FLAG_DEPLOY, FLAG_CONNECT}).m
assign_client(m, k) ==
    assign_sub(m, k[1], k[2], {}, {FLAG_DEPLOY, FLAG_CONNECT, FLAG_DISKLESS}).m

\* for node in selected: self._assign(...)
RECURSIVE assign_replicas(_, _)
assign_replicas(m, ks) ==
    IF ks = {}
    THEN m
    ELSE LET k == CHOOSE x \in ks : TRUE
         IN  assign_replicas(assign_replica(m, k), ks \ {k})

\* _site_clients: every node without an assignment becomes a client, and so
\* does every assignment that is not to be deployed
site_client(m, k) ==
    IF k \notin DOMAIN m.conf.assg
    THEN assign_client(m, k)
    ELSE IF FLAG_DEPLOY \notin m.conf.assg[k].tstate
    THEN deploy_client(m, k)
    ELSE m
\* for node in self._nodes.itervalues(): ...
RECURSIVE site_client_all(_, _)
site_client_all(m, ks) ==
    IF ks = {}
    THEN m
    ELSE LET k == CHOOSE x \in ks : TRUE
         IN  site_client_all(site_client(m, k), ks \ {k})

site_clients(m, res_name) ==
    site_client_all(m, {<<n, res_name>> : n \in DOMAIN m.conf.nodes})

\* auto_deploy, REDUCE: assignments waiting for deployment are undeployed
\* first, as long as there are more than final_count
RECURSIVE undeploy_waiting(_, _, _, _)
undeploy_waiting(m, ks, ctr, final_count) ==
    IF ks = {} \/ ~(ctr > final_count)
    THEN [m |-> m, ctr |-> ctr]
    ELSE LET k == CHOOSE x \in ks : TRUE
             a == m.conf.assg[k]
         IN  IF FLAG_DEPLOY \in a.tstate /\ FLAG_DEPLOY \notin a.cstate
             THEN undeploy_waiting(undeploy(m, k), ks \ {k}, ctr - 1, final_count)
             ELSE undeploy_waiting(m, ks \ {k}, ctr, final_count)

\* the selected assignments are left as they are
demote_keeps(m, k) == m

\* the selected assignments become clients or are unassigned
demote(m, k) == deploy_client(m, k)

\* for node in selected: assg.deploy_client()
RECURSIVE demote_all(_, _)
demote_all(m, ks) ==
    IF ks = {}
    THEN m
    ELSE LET k == CHOOSE x \in ks : TRUE
         IN  demote_all(demote(m, k), ks \ {k})

\* _unassign(assg, False); without the assignment _unassign fails after it
\* has taken the serial
unassign_unforced(m, inst, k) ==
    IF k \in DOMAIN m.conf.assg
    THEN unassign_sub(m, inst, k, FALSE)
    ELSE get_serial(m)

\* for node in selected: self._unassign(assg, False)
RECURSIVE unassign_all(_, _, _)
unassign_all(m, inst, ks) ==
    IF ks = {}
    THEN m
    ELSE LET k == CHOOSE x \in ks : TRUE
         IN  unassign_all(unassign_unforced(m, inst, k), inst, ks \ {k})

\* auto_deploy past its check of count and delta; pick is what the deployer
\* plugin selects
auto_deploy(m, inst, res_name, count, delta, site, pick, ok, save_ok) ==
    IF res_name \notin DOMAIN m.conf.res
    THEN Result(m, << >>, <<DM_ENOENT>>)
    ELSE
    LET maxnodes == MaxNodeId + 1
        crtnodes == Cardinality(DOMAIN m.conf.nodes)
        maxcount == IF maxnodes < crtnodes THEN maxnodes ELSE crtnodes
        assigned == assigned_count(m.conf, res_name)
        final_count == IF delta # 0 THEN assigned + delta ELSE count
        undeployed == {n \in DOMAIN m.conf.nodes :
                          <<n, res_name>> \notin DOMAIN m.conf.assg}
        extend ==
            IF pick \subseteq undeployed
               /\ Cardinality(pick) = final_count - assigned
            THEN LET m1 == assign_replicas(m, {<<n, res_name>> : n \in pick})
                 IN  save_conf_data(perform_changes(m1, inst, ok), save_ok, << >>)
            ELSE Result(m, << >>, <<DM_ENODECNT>>)
        reduce ==
            LET w == undeploy_waiting(m, AssgOfRes(m.conf, res_name),
                                      assigned, final_count)
                deployed == {k \in AssgOfRes(w.m.conf, res_name) :
                                /\ FLAG_DEPLOY \in w.m.conf.assg[k].tstate
                                /\ FLAG_DEPLOY \in w.m.conf.assg[k].cstate}
                selected == IF w.ctr > final_count
                            THEN {k \in deployed : k[1] \in pick}
                            ELSE {}
                m1 == IF site
                      THEN demote_all(w.m, selected)
                      ELSE unassign_all(w.m, inst, selected)
            IN  save_conf_data(perform_changes(m1, inst, ok), save_ok, << >>)
        main == IF final_count > maxcount
                THEN Result(m, << >>, <<DM_ENODECNT>>)
                ELSE IF final_count <= 0
                THEN Result(m, << >>, <<DM_EINVAL>>)
                ELSE IF final_count > assigned
                THEN extend
                ELSE IF final_count < assigned
                THEN reduce
                ELSE Result(m, << >>, << >>)
    IN  IF delta # 0 /\ final_count < 1
        THEN \* return fn_rc
             Result(m, << >>, <<DM_EINVAL>>)
        ELSE IF site /\ DM_EPERSIST \notin {main.rc[i] : i \in DOMAIN main.rc}
        THEN \* the remaining nodes are turned into clients after the save
             Result(site_clients(main.m, res_name), main.img, main.rc)
        ELSE main

\* DrbdManager.run(override_hash, poke_cluster) once it holds the session:
\* the reconciler pass, the serial taken if the cluster is poked, and the
\* configuration saved if anything changed
run_changes(m, inst, poke_cluster, ok, save_ok) ==
    LET m1 == perform_changes(m, inst, ok)
        m2 == IF poke_cluster THEN get_serial(m1) ELSE m1
    IN  IF m2.conf # m.conf
        THEN save_conf_data(m2, save_ok, << >>)
        ELSE Result(m2, << >>, << >>)

run_always(m, inst, equal, override_hash, poke_cluster, failing, save_ok) ==
    LET m1 == perform_changes_some(m, inst, failing)
        m2 == IF poke_cluster THEN get_serial(m1) ELSE m1
    IN  IF m2.conf # m.conf
        THEN save_conf_data(m2, save_ok, << >>)
        ELSE Result(m2, << >>, << >>)

\* DrbdManager.run(override_hash, poke_cluster): without override_hash the
\* pass is skipped when the stored hash equals the hash in memory
run(m, inst, equal, override_hash, poke_cluster, failing, save_ok) ==
    IF ~override_hash /\ equal
    THEN Result(m, << >>, << >>)
    ELSE LET m1 == perform_changes_some(m, inst, failing)
             m2 == IF poke_cluster THEN get_serial(m1) ELSE m1
         IN  IF m2.conf # m.conf
             THEN save_conf_data(m2, save_ok, << >>)
             ELSE Result(m2, << >>, << >>)

(***************************************************************************)
(* The handlers of one daemon: begin_modify_conf, the body, and             *)
(* end_modify_conf in the handler's finally clause                          *)
(***************************************************************************)
NoIter == [live |-> FALSE, first |-> "alpha"]

\* the server object as a handler finds it; iter is how the containers of
\* drbdcore hand out their entries to the loops of this handler, ctl (history)
\* what the handler has done to the configuration of the control resource
Memory(d, iter) ==
    [conf |-> mem[d], open |-> change_open[d], calls |-> 0, rets |-> {},
     iter |-> iter, ctl |-> << >>, log |-> << >>]

\* persist = self.begin_modify_conf()
Begin(d) ==
    /\ pc[d] = "idle"
    /\ \E io_ok, load_ok \in BOOLEAN :
         LET opened == persist_open(lock, io_ok)
             b == begin_modify_conf(conf_hash[d], mem[d], disk, opened, load_ok)
         IN  /\ mem' = [mem EXCEPT ![d] = b.conf]
             /\ conf_hash' = [conf_hash EXCEPT ![d] = b.hash]
             /\ persist' = [persist EXCEPT ![d] = b.session]
             /\ lock' = IF b.session THEN lock \cup {d} ELSE lock
             /\ synced' = [synced EXCEPT ![d] = IF b.reloaded THEN disk.conf ELSE @]
             /\ call' = [call EXCEPT ![d] =
                           [NoCall EXCEPT !.op = "begin",
                                          !.equal0 =
                                              /\ conf_hash[d] # NoHash
                                              /\ disk.hash # NoHash
                                              /\ conf_hash[d] = disk.hash,
                                          !.reloaded = b.reloaded,
                                          !.serial0 = b.conf.serial,
                                          !.serial1 = b.conf.serial]]
    /\ pc' = [pc EXCEPT ![d] = "begun"]
    /\ UNCHANGED <<disk, change_open, rc, evt, proc>>

\* a handler that got no session and leaves the configuration alone
Refused(d, codes) == Result(Memory(d, NoIter), << >>, codes)

\* the body of handler op: req is what is remembered of its arguments, res
\* its result with a session, no_session its result without one
Body(d, w, op, req, res, no_session) ==
    /\ pc[d] = "begun"
    /\ pc' = [pc EXCEPT ![d] = "done"]
    /\ UNCHANGED <<lock, persist, evt, proc>>
    /\ IF persist[d]
       THEN /\ res.m.conf.serial <= w.cap
            /\ mem' = [mem EXCEPT ![d] = res.m.conf]
            /\ change_open' = [change_open EXCEPT ![d] = res.m.open]
            /\ rc' = [rc EXCEPT ![d] = Finish(res.rc)]
            /\ IF res.img # << >>
               THEN LET image == res.img[Len(res.img)]
                    IN  /\ disk' = [conf |-> image, hash |-> Hash(image)]
                        /\ synced' = [synced EXCEPT ![d] = image]
                        /\ conf_hash' = [conf_hash EXCEPT ![d] = Hash(image)]
               ELSE UNCHANGED <<disk, synced, conf_hash>>
            /\ call' = [call EXCEPT ![d].op = op,
                                    ![d].req = req,
                                    ![d].changed = (disk'.hash # disk.hash),
                                    ![d].serial1 = res.m.conf.serial,
                                    ![d].calls = res.m.calls,
                                    ![d].rets = res.m.rets,
                                    ![d].saved = (res.img # << >>),
                                    ![d].log = res.m.log,
                                    ![d].overwrite0 = Overwriting(mem[d]),
                                    ![d].base_ok =
                                        (res.img # << >> => synced[d] = disk.conf)]
       ELSE /\ rc' = [rc EXCEPT ![d] = Finish(no_session.rc)]
            /\ mem' = [mem EXCEPT ![d] = no_session.m.conf]
            /\ call' = [call EXCEPT ![d].op = op, ![d].req = req]
            /\ UNCHANGED <<disk, change_open, conf_hash, synced>>

\* end_modify_conf(persist)
End(d) ==
    /\ pc[d] = "done"
    /\ pc' = [pc EXCEPT ![d] = "idle"]
    /\ lock' = IF persist[d] THEN lock \ {d} ELSE lock
    /\ persist' = [persist EXCEPT ![d] = FALSE]
    /\ change_open' = [change_open EXCEPT ![d] = close_serial(change_open[d])]
    /\ rc' = [rc EXCEPT ![d] = << >>]
    /\ call' = [call EXCEPT ![d] = NoCall]
    /\ UNCHANGED <<disk, mem, conf_hash, synced, evt, proc>>

\* inputs of the handlers
PortProps == {RES_PORT_NR_AUTO, DEFAULT_MIN_PORT_NR, 0}
AssignFlagSets ==
    {{FLAG_CONNECT}, {FLAG_CONNECT, FLAG_OVERWRITE}, {FLAG_CONNECT, FLAG_DISKLESS},
     {FLAG_CONNECT, FLAG_DISCARD}, {FLAG_OVERWRITE, FLAG_DISKLESS},
     {FLAG_OVERWRITE, FLAG_DISCARD}}
\* <<clear mask, set mask>>
TMasks ==
    {<<{}, {}>>, <<{}, {FLAG_OVERWRITE}>>, <<{}, {FLAG_DISCARD}>>,
     <<{}, {FLAG_DISKLESS}>>, <<{}, {FLAG_OVERWRITE, FLAG_DISCARD}>>,
     <<{}, {FLAG_OVERWRITE, FLAG_DISKLESS}>>,
     <<{FLAG_OVERWRITE}, {}>>, <<{FLAG_DISKLESS}, {}>>, <<{FLAG_DEPLOY}, {}>>}
CMasks == {<<{}, {}>>, <<{FLAG_DEPLOY}, {}>>, <<{}, {FLAG_DEPLOY}>>}

\* what is remembered of the target flags of a request: whether OVERWRITE
\* comes with DISKLESS or with DISCARD
Conflict(flags) ==
    IF FLAG_OVERWRITE \in flags /\ flags \cap {FLAG_DISKLESS, FLAG_DISCARD} # {}
    THEN {"conflict"}
    ELSE {}

\* what is remembered of a remove_node: whether it is forced and whether the
\* node has assignments
Removal(conf, n, force) ==
    (IF force THEN {"force"} ELSE {}) \cup
    (IF AssgOfNode(conf, n) # {} THEN {"assigned"} ELSE {})

\* what the handlers of a specification are called with: the names, the flags
\* of assign, the outcomes of persist.save (TRUE: the image is written, FALSE:
\* PersistenceException) for the handlers of resources and of poke
\* (disk_saves) and for the others (saves), the iteration behaviours and the
\* serial up to which changes are followed
Cluster ==
    [nodes |-> NodeNames, res |-> ResNames, flags |-> AssignFlagSets,
     saves |-> BOOLEAN, disk_saves |-> BOOLEAN, iters |-> {NoIter},
     cap |-> MaxSerial, faults |-> {{}}]

OneDaemon == [Cluster EXCEPT !.saves = {TRUE}]

CreateNode(d, w) ==
    \E n \in w.nodes, has_addr, ctrl_ok \in BOOLEAN, save_ok \in w.saves, iter \in w.iters :
        Body(d, w, "create_node", {},
             create_node(Memory(d, iter), d, n, has_addr, ctrl_ok, save_ok),
             Refused(d, <<DM_EPERSIST>>))

RemoveNode(d, w) ==
    \E n \in w.nodes, force, ok \in BOOLEAN, save_ok \in w.saves, iter \in w.iters :
        Body(d, w, "remove_node", Removal(mem[d], n, force),
             remove_node(Memory(d, iter), d, n, force, ok, save_ok), Refused(d, <<DM_EPERSIST>>))

CreateResource(d, w) ==
    \E r \in w.res, port \in PortProps, secret_ok \in BOOLEAN,
       save_ok \in w.disk_saves, iter \in w.iters :
        Body(d, w, "create_resource",
             IF port = RES_PORT_NR_AUTO THEN {"auto"} ELSE {},
             create_resource(Memory(d, iter), r, port, secret_ok, save_ok),
             Refused(d, <<DM_EPERSIST>>))

RemoveResource(d, w) ==
    \E r \in w.res, force, ok \in BOOLEAN, save_ok \in w.disk_saves,
       iter \in w.iters :
        Body(d, w, "remove_resource", {},
             remove_resource(Memory(d, iter), d, r, force, ok, save_ok),
             Refused(d, <<DM_EPERSIST>>))

\* props[VOL_MINOR]: none, the smallest minor of the range, one beyond
MinorProps == {MINOR_NR_AUTO, DEFAULT_MIN_MINOR_NR, MaxMinorNr + 1}

CreateVolume(d, w) ==
    \E r \in w.res, minor \in MinorProps, ok \in BOOLEAN, save_ok \in w.saves, iter \in w.iters :
        Body(d, w, "create_volume", IF minor = MINOR_NR_AUTO THEN {"auto"} ELSE {},
             create_volume(Memory(d, iter), d, r, minor, ok, save_ok),
             Refused(d, <<DM_EPERSIST>>))

RemoveVolume(d, w) ==
    \E r \in w.res, vol_id \in 0..MaxResVols, force, ok \in BOOLEAN, save_ok \in w.saves, iter \in w.iters :
        Body(d, w, "remove_volume", IF force THEN {"force"} ELSE {},
             remove_volume(Memory(d, iter), d, r, vol_id, force, ok, save_ok),
             Refused(d, <<DM_EPERSIST>>))

Assign(d, w) ==
    \E n \in w.nodes, r \in w.res, flags \in w.flags,
       ok \in BOOLEAN, save_ok \in w.saves, iter \in w.iters :
        Body(d, w, "assign", Conflict(flags),
             assign(Memory(d, iter), d, n, r, flags, ok, save_ok), Refused(d, <<DM_EPERSIST>>))

\* connect and attach leave the rest of the handler out without a session
Connect(d, w) ==
    \E n \in w.nodes, r \in w.res, reconnect, ok \in BOOLEAN, save_ok \in w.saves, iter \in w.iters :
        Body(d, w, "connect", {},
             connect(Memory(d, iter), d, n, r, reconnect, ok, save_ok),
             Refused(d, << >>))

Attach(d, w) ==
    \E n \in w.nodes, r \in w.res, vol_id \in 0..MaxResVols, ok \in BOOLEAN, save_ok \in w.saves, iter \in w.iters :
        Body(d, w, "attach", {},
             attach(Memory(d, iter), d, n, r, vol_id, ok, save_ok),
             Refused(d, << >>))

\* what an unassign asks for: by force, of a deployed assignment
Unassigning(conf, k, force) ==
    (IF force THEN {"force"} ELSE {}) \cup
    (IF k \in DOMAIN conf.assg /\ is_deployed(conf, k) THEN {"deployed"} ELSE {})

Unassign(d, w) ==
    \E n \in w.nodes, r \in w.res, force, ok \in BOOLEAN, save_ok \in w.saves, iter \in w.iters :
        Body(d, w, "unassign", Unassigning(mem[d], <<n, r>>, force),
             unassign(Memory(d, iter), d, n, r, force, ok, save_ok),
             Refused(d, <<DM_EPERSIST>>))

ModifyState(d, w) ==
    \E n \in w.nodes, r \in w.res, c \in CMasks, t \in TMasks,
       ok \in BOOLEAN, save_ok \in w.saves, iter \in w.iters :
        Body(d, w, "modify_state", Conflict(t[2]),
             modify_state(Memory(d, iter), d, n, r, c[1], c[2], t[1], t[2], ok, save_ok),
             Refused(d, <<DM_EPERSIST>>))

\* the check of count and delta that auto_deploy makes before it opens a
\* session: conflicting values are answered with EINVAL, and with site_clients
\* set the resource that was never looked up is then read, which ends in the
\* handler for unexpected exceptions
auto_deploy_args(count, delta, site) ==
    IF (count # 0 /\ delta # 0) \/ count < 0
    THEN <<DM_EINVAL>> \o (IF site THEN <<DM_DEBUG>> ELSE << >>)
    ELSE << >>

\* what an auto_deploy call asks for: site clients, and a refusal (conflicting
\* or too small "einval", too large "enodecnt") or a reduction to count
Requested(conf, r, count, delta, site) ==
    LET assigned == IF r \in DOMAIN conf.res THEN assigned_count(conf, r) ELSE 0
        final_count == IF delta # 0 THEN assigned + delta ELSE count
        maxnodes == MaxNodeId + 1
        crtnodes == Cardinality(DOMAIN conf.nodes)
        maxcount == IF maxnodes < crtnodes THEN maxnodes ELSE crtnodes
    IN  (IF site THEN {"site"} ELSE {}) \cup
        (IF auto_deploy_args(count, delta, site) # << >>
         THEN {"einval"}
         ELSE IF r \notin DOMAIN conf.res
         THEN {}
         ELSE IF final_count < 1
         THEN {"einval"}
         ELSE IF final_count > maxcount
         THEN {"enodecnt"}
         ELSE IF delta = 0 /\ final_count < assigned
         THEN {"reduce"}
         ELSE {})

\* auto_deploy with conflicting values of count and delta: no session is
\* opened, end_modify_conf(None) closes the serial
AutoDeployRefused(d, w) ==
    \E r \in w.res, count \in -1..2, delta \in {-1, 0, 1}, site \in BOOLEAN :
        /\ auto_deploy_args(count, delta, site) # << >>
        /\ pc[d] = "idle"
        /\ pc' = [pc EXCEPT ![d] = "done"]
        /\ rc' = [rc EXCEPT ![d] = auto_deploy_args(count, delta, site)]
        /\ call' = [call EXCEPT ![d] =
                      [NoCall EXCEPT !.op = "auto_deploy",
                                     !.req = Requested(mem[d], r, count, delta, site)]]
        /\ UNCHANGED <<disk, lock, mem, conf_hash, change_open, persist,
                       synced, evt, proc>>

AutoDeploy(d, w) ==
    \E r \in w.res, count \in 0..2, delta \in {-1, 0, 1}, site \in BOOLEAN,
       pick \in SUBSET w.nodes, ok \in BOOLEAN, save_ok \in w.saves, iter \in w.iters :
        /\ auto_deploy_args(count, delta, site) = << >>
        /\ Body(d, w, "auto_deploy", Requested(mem[d], r, count, delta, site),
                auto_deploy(Memory(d, iter), d, r, count, delta, site, pick, ok, save_ok),
                Refused(d, <<DM_EPERSIST>>))

InitNode(d, w) ==
    \E n \in w.nodes, has_addr, ctrl_ok \in BOOLEAN, save_ok \in w.saves,
       iter \in w.iters :
        Body(d, w, "init_node", {},
             init_node(Memory(d, iter), d, n, has_addr, ctrl_ok, save_ok),
             Result(cleared(Memory(d, iter)), << >>, <<DM_EPERSIST>>))

\* poke(): DrbdManager.run(True, True)
\* what a run of the DrbdManager finds to do on its node: an assignment that
\* is deployed and not to be
Pending(conf, inst) ==
    IF \E k \in AssgOfNode(conf, inst) :
           is_deployed(conf, k) /\ FLAG_DEPLOY \notin conf.assg[k].tstate
    THEN {"pending"}
    ELSE {}

Poke(d, w) ==
    \E ok \in BOOLEAN, save_ok \in w.disk_saves, iter \in w.iters :
        Body(d, w, "poke", Pending(mem[d], d),
             run_changes(Memory(d, iter), d, TRUE, ok, save_ok),
             Refused(d, << >>))

\* what a run finds on its node: assignments whose deployment differs from
\* their target, some of which the backend fails
Faults(conf, inst, failing) ==
    LET todo == {k \in AssgOfNode(conf, inst) :
                    is_deployed(conf, k) # (FLAG_DEPLOY \in conf.assg[k].tstate)}
    IN  (IF todo \cap failing # {} THEN {"failed"} ELSE {}) \cup
        (IF todo \ failing # {} THEN {"reconciled"} ELSE {})

\* drbd_event() on a trigger and restart_events(): DrbdManager.run(False, False)
EventRun(d, w) ==
    /\ pc[d] = "begun"
    /\ \E failing \in w.faults, save_ok \in w.disk_saves :
         \E res \in IF persist[d]
                     THEN {run(Memory(d, NoIter), d, call[d].equal0, FALSE, FALSE,
                               failing, save_ok)}
                     ELSE {Refused(d, << >>)} :
             Body(d, w, "run", Faults(mem[d], d, failing), res, Refused(d, << >>))

(***************************************************************************)
(* The events of "drbdsetup events".  A line that _evt_pat matches is       *)
(* [text |-> "event", type, source, attrs], attrs the key:value pairs in    *)
(* the order they stand on the line; any other text is OtherLine.           *)
(***************************************************************************)
EVT_TYPE_CHANGE == "change"
EVT_TYPE_EXISTS == "exists"
EVT_SRC_CON == "connection"
EVT_SRC_PEERDEV == "peer-device"
EVT_SRC_RES == "resource"
EVT_ARG_NAME == "name"
EVT_ARG_ROLE == "role"
EVT_ARG_REPL == "replication"
EVT_ROLE_PRIMARY == "Primary"
EVT_ROLE_SECONDARY == "Secondary"
EVT_REPL_SYNCTARGET == "SyncTarget"
DRBDCTRL_RES_NAME == ".drbdctrl"

OtherLine == [text |-> "other"]

AttrPairs ==
    {<<EVT_ARG_NAME, DRBDCTRL_RES_NAME>>, <<EVT_ARG_NAME, "r0">>,
     <<EVT_ARG_ROLE, EVT_ROLE_SECONDARY>>, <<EVT_ARG_ROLE, EVT_ROLE_PRIMARY>>,
     <<EVT_ARG_REPL, EVT_REPL_SYNCTARGET>>, <<EVT_ARG_REPL, "Established">>}

AttrLists ==
    {<< >>} \cup {<<a>> : a \in AttrPairs}
            \cup {<<a, b>> : a \in AttrPairs, b \in AttrPairs}

EventLines ==
    [text : {"event"}, type : {EVT_TYPE_CHANGE, EVT_TYPE_EXISTS},
     source : {EVT_SRC_CON, EVT_SRC_PEERDEV, EVT_SRC_RES}, attrs : AttrLists]

Lines == EventLines \cup {OtherLine}

\* dict(re.findall(...)): of two pairs with the same key the later one stays
line_data(attrs) ==
    [key \in {attrs[i][1] : i \in DOMAIN attrs} |->
        attrs[CHOOSE i \in DOMAIN attrs :
                 /\ attrs[i][1] = key
                 /\ \A j \in DOMAIN attrs : attrs[j][1] = key => j <= i][2]]

drbd_event_change_trigger_any_name(evt_type, evt_source, data) ==
    /\ evt_type = EVT_TYPE_CHANGE
    /\ \/ /\ EVT_ARG_ROLE \in DOMAIN data
          /\ evt_source = EVT_SRC_CON
          /\ data[EVT_ARG_ROLE] = EVT_ROLE_SECONDARY
       \/ /\ EVT_ARG_REPL \in DOMAIN data
          /\ evt_source = EVT_SRC_PEERDEV
          /\ data[EVT_ARG_REPL] = EVT_REPL_SYNCTARGET

\* _drbd_event_change_trigger; a missing key is the KeyError that is ignored
drbd_event_change_trigger(evt_type, evt_source, data) ==
    IF evt_type = EVT_TYPE_CHANGE
    THEN IF EVT_ARG_NAME \notin DOMAIN data
         THEN FALSE
         ELSE IF data[EVT_ARG_NAME] = DRBDCTRL_RES_NAME
         THEN LET role_hit ==
                      IF EVT_ARG_ROLE \notin DOMAIN data
                      THEN FALSE
                      ELSE /\ evt_source = EVT_SRC_CON
                           /\ data[EVT_ARG_ROLE] = EVT_ROLE_SECONDARY
                  repl_hit ==
                      IF EVT_ARG_REPL \notin DOMAIN data
                      THEN FALSE
                      ELSE /\ evt_source = EVT_SRC_PEERDEV
                           /\ data[EVT_ARG_REPL] = EVT_REPL_SYNCTARGET
              IN  role_hit \/ repl_hit
         ELSE FALSE
    ELSE FALSE

line_changed_last_wins(changed, line) ==
    IF line.text = "event"
    THEN drbd_event_change_trigger(line.type, line.source, line_data(line.attrs))
    ELSE FALSE

\* the body of the loop of drbd_event for one line: the value of changed
line_changed(changed, line) ==
    IF ~changed
    THEN IF line.text = "event"
         THEN drbd_event_change_trigger(line.type, line.source,
                                        line_data(line.attrs))
         ELSE changed
    ELSE changed

\* a line the reconciler is to be started for, as drbdsetup writes it: the
\* value of an attribute is the value of its last occurrence on the line
HasAttr(line, key, val) ==
    \E i \in DOMAIN line.attrs :
        /\ line.attrs[i] = <<key, val>>
        /\ \A j \in DOMAIN line.attrs : j > i => line.attrs[j][1] # key

TriggerLine(line) ==
    /\ line.text = "event"
    /\ line.type = "change"
    /\ HasAttr(line, "name", ".drbdctrl")
    /\ \/ line.source = "connection" /\ HasAttr(line, "role", "Secondary")
       \/ line.source = "peer-device" /\ HasAttr(line, "replication", "SyncTarget")

\* the state of the callback drbd_event: where it is, changed, and (history)
\* the line read last, how many lines and trigger lines this drain has read
\* and how many reconciler runs it has started
NoDrain ==
    [pc |-> "idle", changed |-> FALSE, last |-> OtherLine, before |-> FALSE,
     nlines |-> 0, ntrig |-> 0, runs |-> 0, drained |-> FALSE]

\* the main loop calls drbd_event
EvtCallback ==
    /\ evt.pc = "idle"
    /\ evt' = [NoDrain EXCEPT !.pc = "reading"]
    /\ UNCHANGED <<disk, lock, mem, conf_hash, change_open, pc, persist, rc,
                   call, synced, proc>>

\* readline() returns a line
EvtLine ==
    /\ evt.pc = "reading"
    /\ evt.nlines < MaxLines
    /\ \E line \in Lines :
         evt' = [evt EXCEPT !.changed = line_changed(evt.changed, line),
                            !.before = evt.changed,
                            !.last = line,
                            !.nlines = @ + 1,
                            !.ntrig = IF TriggerLine(line) THEN @ + 1 ELSE @]
    /\ UNCHANGED <<disk, lock, mem, conf_hash, change_open, pc, persist, rc,
                   call, synced, proc>>

\* readline() returns None: the pipe is empty
EvtNone ==
    /\ evt.pc = "reading"
    /\ evt' = [evt EXCEPT !.pc = "drained", !.drained = TRUE]
    /\ UNCHANGED <<disk, lock, mem, conf_hash, change_open, pc, persist, rc,
                   call, synced, proc>>

\* if changed: self._drbd_mgr.run(False, False)
EvtRun ==
    /\ evt.pc = "drained"
    /\ evt' = [evt EXCEPT !.pc = "return",
                          !.runs = IF evt.changed THEN @ + 1 ELSE @]
    /\ UNCHANGED <<disk, lock, mem, conf_hash, change_open, pc, persist, rc,
                   call, synced, proc>>

\* return True
EvtReturn ==
    /\ evt.pc = "return"
    /\ evt' = NoDrain
    /\ UNCHANGED <<disk, lock, mem, conf_hash, change_open, pc, persist, rc,
                   call, synced, proc>>

(***************************************************************************)
(* The events subprocess: init_events with its staged termination of the    *)
(* old subprocess, restart_events on hang-up of the pipe, and shutdown       *)
(***************************************************************************)
\* term_stage_end
TERM_STAGE_END == 7

\* the daemon after __init__ has called init_events: handle (_proc_evt is
\* set), alive (the subprocess of the handle runs), pipe (the read end is
\* open), in_h / hup_h (the watches are registered), stage (term_stage),
\* stray (a subprocess whose handle was given up still runs), and (history)
\* trace, what the termination loop did at which stage, logged, runs
Tracing ==
    [pc |-> "idle", handle |-> TRUE, alive |-> TRUE, pipe |-> TRUE,
     in_h |-> TRUE, hup_h |-> TRUE, stage |-> 0, trace |-> << >>,
     stray |-> FALSE, restarting |-> FALSE, log_error |-> FALSE,
     logged |-> 0, retries |-> 0, runs |-> 0, ctrl_up |-> TRUE]

Others == <<disk, lock, mem, conf_hash, change_open, pc, persist, rc, call,
            synced, evt>>

\* the subprocess of the handle exits by itself or from a signal
ChildExit ==
    /\ proc.pc # "exited"
    /\ proc.handle /\ proc.alive
    /\ proc' = [proc EXCEPT !.alive = FALSE]
    /\ UNCHANGED Others

\* a subprocess that was given up exits
StrayExit ==
    /\ proc.stray
    /\ proc' = [proc EXCEPT !.stray = FALSE]
    /\ UNCHANGED Others

\* IO_HUP on the pipe, because the subprocess has exited or has closed its
\* end: the main loop calls restart_events, which calls init_events
HangUp ==
    /\ proc.pc = "idle"
    /\ proc.hup_h /\ proc.handle
    /\ \E exited \in BOOLEAN :
         proc' = [proc EXCEPT !.pc = "init",
                              !.alive = @ /\ ~exited,
                              !.restarting = TRUE,
                              !.log_error = TRUE,
                              !.logged = 0,
                              !.retries = 0,
                              !.runs = 0]
    /\ UNCHANGED Others

\* init_events: the watches are unregistered; with a subprocess handle the
\* termination loop starts at stage 1
InitEventsEnter ==
    /\ proc.pc = "init"
    /\ proc' = [proc EXCEPT !.in_h = FALSE,
                            !.hup_h = FALSE,
                            !.trace = << >>,
                            !.stage = IF proc.handle THEN 1 ELSE 0,
                            !.pc = IF proc.handle THEN "term" ELSE "spawn"]
    /\ UNCHANGED Others

\* the termination loop with SIGKILL at stage 2 already
term_stage_step_kills_at_once(p, call_ok) ==
    IF p.stage = 1
    THEN IF call_ok
         THEN [p EXCEPT !.pipe = FALSE,
                        !.trace = Append(@, <<1, "close">>),
                        !.stage = 2]
         ELSE [p EXCEPT !.pc = "spawn"]
    ELSE IF p.alive
    THEN \* poll(): returncode is None
         IF p.stage \in {2, 4}
         THEN IF call_ok
              THEN [p EXCEPT !.trace = Append(@, <<p.stage, "SIGKILL">>),
                             !.stage = @ + 1]
              ELSE [p EXCEPT !.pc = "spawn"]
         ELSE [p EXCEPT !.stage = @ + 1]
    ELSE \* the subprocess has exited: leave the loop
         [p EXCEPT !.trace = Append(@, <<p.stage, "exited">>),
                   !.stage = TERM_STAGE_END]

\* one pass of the body of the termination loop at term_stage = stage; call_ok
\* is whether close() or os.kill() returns or raises OSError / IOError, which
\* ends the loop with the handle kept
term_stage_step(p, call_ok) ==
    IF p.stage = 1
    THEN IF call_ok
         THEN [p EXCEPT !.pipe = FALSE,
                        !.trace = Append(@, <<1, "close">>),
                        !.stage = 2]
         ELSE [p EXCEPT !.pc = "spawn"]
    ELSE IF p.alive
    THEN \* poll(): returncode is None
         IF p.stage \in {2, 4}
         THEN IF call_ok
              THEN [p EXCEPT !.trace = Append(@, <<p.stage, IF p.stage = 2
                                                           THEN "SIGTERM"
                                                           ELSE "SIGKILL">>),
                             !.stage = @ + 1]
              ELSE [p EXCEPT !.pc = "spawn"]
         ELSE [p EXCEPT !.stage = @ + 1]
    ELSE \* the subprocess has exited: leave the loop
         [p EXCEPT !.trace = Append(@, <<p.stage, "exited">>),
                   !.stage = TERM_STAGE_END]

TermStage ==
    /\ proc.pc = "term"
    /\ proc.stage < TERM_STAGE_END
    /\ \E call_ok \in BOOLEAN : proc' = term_stage_step(proc, call_ok)
    /\ UNCHANGED Others

\* self._proc_evt = None
TermEnd ==
    /\ proc.pc = "term"
    /\ proc.stage = TERM_STAGE_END
    /\ proc' = [proc EXCEPT !.handle = FALSE,
                            !.alive = FALSE,
                            !.stray = @ \/ proc.alive,
                            !.pc = "spawn"]
    /\ UNCHANGED Others

\* subprocess.Popen and the registration of the watches; an OSError leaves
\* init_events, and restart_events logs it once and sleeps
Spawn ==
    /\ proc.pc = "spawn"
    /\ \E ok \in BOOLEAN :
         IF ok
         THEN proc' = [proc EXCEPT !.handle = TRUE,
                                   !.alive = TRUE,
                                   !.stray = @ \/ (proc.handle /\ proc.alive),
                                   !.pipe = TRUE,
                                   !.in_h = TRUE,
                                   !.hup_h = TRUE,
                                   !.stage = 0,
                                   !.pc = "catchup"]
         ELSE /\ proc.retries < MaxRetries
              /\ proc' = [proc EXCEPT !.retries = @ + 1,
                                      !.logged = IF proc.log_error
                                                 THEN @ + 1 ELSE @,
                                      !.log_error = FALSE,
                                      !.pc = "sleep"]
    /\ UNCHANGED Others

\* time.sleep(30), and init_events is tried again
Retry ==
    /\ proc.pc = "sleep"
    /\ proc' = [proc EXCEPT !.pc = "init"]
    /\ UNCHANGED Others

\* restart_events with a reconciler run for every attempt
Catchup_after_every_attempt ==
    /\ proc.pc = "catchup"
    /\ proc' = [proc EXCEPT !.runs = proc.retries + 1,
                            !.restarting = FALSE,
                            !.pc = "idle"]
    /\ UNCHANGED Others

\* restart_events after init_events has returned: self._drbd_mgr.run(False,
\* False) and return False
Catchup ==
    /\ proc.pc = "catchup"
    /\ proc' = [proc EXCEPT !.runs = @ + 1,
                            !.restarting = FALSE,
                            !.pc = "idle"]
    /\ UNCHANGED Others

\* shutdown(): down_drbdctrl() and exit(0)
Shutdown ==
    /\ proc.pc = "idle"
    /\ proc' = [proc EXCEPT !.ctrl_up = FALSE, !.pc = "exited"]
    /\ UNCHANGED Others

(***************************************************************************)
(* Two daemons on one control volume                                        *)
(***************************************************************************)
Init ==
    /\ \E h \in {NoHash, Hash(InitConf)} : disk = [conf |-> InitConf, hash |-> h]
    /\ lock = {}
    /\ \E loaded \in SUBSET Daemons :
         /\ mem = [d \in Daemons |-> IF d \in loaded THEN InitConf ELSE ClassConf]
         /\ conf_hash = [d \in Daemons |-> IF d \in loaded THEN disk.hash ELSE NoHash]
         /\ synced = [d \in Daemons |-> IF d \in loaded THEN InitConf ELSE ClassConf]
    /\ change_open = [d \in Daemons |-> FALSE]
    /\ pc = [d \in Daemons |-> "idle"]
    /\ persist = [d \in Daemons |-> FALSE]
    /\ rc = [d \in Daemons |-> << >>]
    /\ call = [d \in Daemons |-> NoCall]
    /\ evt = NoDrain
    /\ proc = Tracing

\* the handlers a daemon serves
Protocol(d, w) ==
    \/ Begin(d)
    \/ End(d)
    \/ CreateResource(d, w)
    \/ RemoveResource(d, w)
    \/ Poke(d, w)

Objects(d, w) ==
    \/ CreateNode(d, w)
    \/ RemoveNode(d, w)
    \/ Assign(d, w)
    \/ Unassign(d, w)
    \/ ModifyState(d, w)
    \/ AutoDeploy(d, w)

Next == \E d \in Daemons : Protocol(d, Cluster)

Spec == Init /\ [][Next]_vars

(***************************************************************************)
(* One daemon and all its handlers; the saves of the handlers of            *)
(* assignments and nodes succeed, and the control volume holds a hash      *)
(***************************************************************************)
InitOne == Init /\ mem["beta"] = InitConf /\ disk.hash # NoHash

NextOne == Protocol("alpha", OneDaemon) \/ Objects("alpha", OneDaemon)

SpecOne == InitOne /\ [][NextOne]_vars

(***************************************************************************)
(* One daemon in a cluster with more names than numbers: three node names   *)
(* for the node ids 0..MaxNodeId, three resource names for the ports        *)
(* DEFAULT_MIN_PORT_NR..MaxPortNr                                           *)
(***************************************************************************)
Numbers ==
    [OneDaemon EXCEPT !.nodes = {"alpha", "beta", "gamma"},
                      !.res = {"r0", "r1", "r2"},
                      !.flags = {{FLAG_CONNECT}},
                      !.disk_saves = {TRUE}]

NextNumbers ==
    \/ Begin("alpha")
    \/ End("alpha")
    \/ CreateNode("alpha", Numbers)
    \/ RemoveNode("alpha", Numbers)
    \/ InitNode("alpha", Numbers)
    \/ CreateResource("alpha", Numbers)
    \/ RemoveResource("alpha", Numbers)
    \/ Assign("alpha", Numbers)
    \/ Poke("alpha", Numbers)

SpecNumbers == InitOne /\ [][NextNumbers]_vars

(***************************************************************************)
(* Volumes and volume states: one daemon, two nodes, one resource; the      *)
(* containers are iterated in either order, by live iterators or over       *)
(* snapshots                                                                *)
(***************************************************************************)
Volumes ==
    [OneDaemon EXCEPT !.nodes = {"alpha", "beta"},
                      !.res = {"r0"},
                      !.flags = {{FLAG_CONNECT}},
                      !.disk_saves = {TRUE},
                      !.iters = [live : BOOLEAN, first : {"alpha", "beta"}],
                      !.cap = MaxSerialVolumes]

NextVolumes ==
    \/ Begin("alpha")
    \/ End("alpha")
    \/ CreateResource("alpha", Volumes)
    \/ CreateVolume("alpha", Volumes)
    \/ RemoveVolume("alpha", Volumes)
    \/ Assign("alpha", Volumes)
    \/ Unassign("alpha", Volumes)
    \/ RemoveNode("alpha", Volumes)
    \/ Poke("alpha", Volumes)

SpecVolumes == InitOne /\ [][NextVolumes]_vars

(***************************************************************************)
(* One daemon with full and diskless assignments of a resource that gets    *)
(* its volumes before or after them                                         *)
(***************************************************************************)
Clients ==
    [Volumes EXCEPT !.flags = {{FLAG_CONNECT}, {FLAG_CONNECT, FLAG_DISKLESS}},
                    !.iters = {NoIter},
                    !.cap = MaxSerial + 1]

NextClients ==
    \/ Begin("alpha")
    \/ End("alpha")
    \/ CreateResource("alpha", Clients)
    \/ CreateVolume("alpha", Clients)
    \/ Assign("alpha", Clients)

SpecClients == InitOne /\ [][NextClients]_vars

(***************************************************************************)
(* Sessions that are not granted and saves that fail: one daemon, its own   *)
(* node, one resource                                                       *)
(***************************************************************************)
Sessions ==
    [OneDaemon EXCEPT !.nodes = {"alpha"},
                      !.res = {"r0"},
                      !.flags = {{FLAG_CONNECT}},
                      !.saves = BOOLEAN]

NextSessions ==
    \/ Begin("alpha")
    \/ End("alpha")
    \/ CreateResource("alpha", Sessions)
    \/ CreateVolume("alpha", Sessions)
    \/ Assign("alpha", Sessions)
    \/ Connect("alpha", Sessions)
    \/ Attach("alpha", Sessions)

SpecSessions == InitOne /\ [][NextSessions]_vars

(***************************************************************************)
(* One daemon that deploys one resource by count: auto_deploy, and           *)
(* modify_state to stand in for the peers that report their deployment      *)
(***************************************************************************)
Replicas ==
    [OneDaemon EXCEPT !.res = {"r0"},
                      !.flags = {{FLAG_CONNECT}},
                      !.disk_saves = {TRUE},
                      !.cap = MaxSerial + 2]

NextReplicas ==
    \/ Begin("alpha")
    \/ End("alpha")
    \/ CreateResource("alpha", Replicas)
    \/ ModifyState("alpha", Replicas)
    \/ AutoDeploy("alpha", Replicas)
    \/ AutoDeployRefused("alpha", Replicas)

SpecReplicas == InitOne /\ [][NextReplicas]_vars

(***************************************************************************)
(* The event callback of one daemon                                        *)
(***************************************************************************)
NextEvents == EvtCallback \/ EvtLine \/ EvtNone \/ EvtRun \/ EvtReturn

InitEvents == Init /\ disk.hash # NoHash /\ \A d \in Daemons : mem[d] = InitConf

SpecEvents == InitEvents /\ [][NextEvents]_vars

(***************************************************************************)
(* The events subprocess of one daemon.  The main loop runs its callbacks    *)
(* to their end and time.sleep returns, hence the weak fairness of the steps *)
(* of init_events and restart_events; the subprocess exits when it likes     *)
(***************************************************************************)
TracingSteps ==
    InitEventsEnter \/ TermStage \/ TermEnd \/ Spawn \/ Retry \/ Catchup

NextTracing ==
    \/ ChildExit
    \/ StrayExit
    \/ HangUp
    \/ InitEventsEnter
    \/ TermStage
    \/ TermEnd
    \/ Spawn
    \/ Retry
    \/ Catchup
    \/ Shutdown

SpecTracing == InitEvents /\ [][NextTracing]_vars /\ WF_vars(TracingSteps)

(***************************************************************************)
(* A daemon that reconciles on the triggers of its events subprocess what   *)
(* its peer writes to the control volume; the backend of the node may fail  *)
(* for any of the assignments of a run                                      *)
(***************************************************************************)
Faulty ==
    [Cluster EXCEPT !.nodes = {"alpha"},
                    !.res = {"r0", "r1"},
                    !.flags = {{FLAG_CONNECT}},
                    !.saves = {TRUE},
                    !.disk_saves = {TRUE},
                    !.cap = MaxSerial + 1,
                    !.faults = SUBSET ({"alpha"} \X {"r0", "r1"})]

Peer(d, w) ==
    \/ Begin(d)
    \/ End(d)
    \/ CreateResource(d, w)
    \/ Assign(d, w)
    \/ Unassign(d, w)

Triggered(d, w) ==
    \/ Begin(d)
    \/ End(d)
    \/ EventRun(d, [w EXCEPT !.cap = @ + 1])

NextReconcile == Triggered("alpha", Faulty) \/ Peer("beta", Faulty)

SpecReconcile == InitEvents /\ [][NextReconcile]_vars

(***************************************************************************)
(* The same with a backend that works.  The callback of a trigger runs to   *)
(* its end (weak fairness); the triggers keep coming, and a daemon that     *)
(* finds the control volume unlocked again and again opens it in the end    *)
(* (strong fairness).  Nothing is assumed of the peer.                      *)
(***************************************************************************)
Sound == [Faulty EXCEPT !.res = {"r0"}, !.faults = {{}}]

NextConverge == Triggered("alpha", Sound) \/ Peer("beta", Sound)

\* ENABLED EventRun(d, w): the guards of the action
RunEnabled(d, w) ==
    /\ pc[d] = "begun"
    /\ persist[d] =>
          \E failing \in w.faults, save_ok \in w.disk_saves :
              run(Memory(d, NoIter), d, call[d].equal0, FALSE, FALSE,
                  failing, save_ok).m.conf.serial <= w.cap

\* WF_vars(EventRun(d, w)) with ENABLED written as RunEnabled(d, w)
RunFairness(d, w) ==
    <>[]RunEnabled(d, w) => []<><<EventRun(d, w)>>_vars

SpecConverge ==
    /\ InitEvents
    /\ [][NextConverge]_vars
    /\ WF_vars(End("alpha"))
    /\ RunFairness("alpha", [Sound EXCEPT !.cap = @ + 1])
    /\ SF_vars(Begin("alpha") /\ persist'["alpha"])


(***************************************************************************)
(* Properties                                                               *)
(***************************************************************************)
Mutators ==
    {"create_node", "remove_node", "create_resource", "remove_resource",
     "assign", "unassign", "modify_state", "auto_deploy"}

\* C1: when begin_modify_conf has returned a session, the configuration was
\* reloaded exactly if the stored hash and the in-memory hash were not both
\* non-null and equal, and the in-memory hash equals the stored hash
C1_ReloadIffHashDiffers ==
    \A d \in Daemons :
        (pc[d] = "begun" /\ persist[d]) =>
            /\ call[d].reloaded <=> ~call[d].equal0
            /\ call[d].reloaded => mem[d] = disk.conf
            /\ conf_hash[d] = disk.hash

C1_Witness ==
    \E d \in Daemons :
        /\ pc[d] = "begun"
        /\ persist[d]
        /\ call[d].reloaded
        /\ disk.hash # NoHash
        /\ disk.conf # InitConf

\* C2: every save of a daemon writes a configuration derived from the
\* configuration stored last: at the save, what the daemon last loaded or
\* saved is what the control volume holds
C2_NoLostUpdate ==
    \A d \in Daemons :
        /\ call[d].base_ok
        /\ (pc[d] = "begun" /\ persist[d]) => synced[d] = disk.conf

C2_Witness ==
    \E d \in Daemons :
        /\ pc[d] = "done"
        /\ call[d].saved
        /\ call[d].reloaded
        /\ rc[d] = <<DM_SUCCESS>>
        /\ \E e \in Daemons \ {d} : synced[e] # disk.conf /\ synced[e] # ClassConf
                                    /\ synced[e] # InitConf

\* C3: at most one daemon holds a session for writing at any time
C3_OneWriter == Cardinality({d \in Daemons : persist[d]}) <= 1

C3_Witness ==
    \E d, e \in Daemons :
        /\ d # e
        /\ persist[d]
        /\ pc[d] = "begun"
        /\ pc[e] = "done"
        /\ ~persist[e]
        /\ rc[e] = <<DM_EPERSIST>>

\* C4: after a mutator has returned successfully, the stored hash differs
\* from the hash before the call exactly if the call incremented the serial
C4_HashChangesIffSerial ==
    \A d \in Daemons :
        (pc[d] = "done" /\ call[d].op \in Mutators /\ rc[d] = <<DM_SUCCESS>>) =>
            (call[d].changed <=> call[d].serial1 > call[d].serial0)

C6_SerialMonotonic ==
    [][/\ disk'.conf.serial >= disk.conf.serial
       /\ \A d \in Daemons : mem'[d].serial >= mem[d].serial]_vars

\* C7: the line read while nothing has triggered yet sets changed exactly if
\* it is a 'change' event of '.drbdctrl' that reports a connection with role
\* Secondary or a peer-device with replication SyncTarget
C7_TriggerIff ==
    (evt.pc = "reading" /\ evt.nlines > 0 /\ ~evt.before) =>
        (evt.changed <=> TriggerLine(evt.last))

C7_Witness ==
    /\ evt.pc = "reading"
    /\ ~evt.before
    /\ evt.changed
    /\ evt.last.source = EVT_SRC_PEERDEV
    /\ evt.last.attrs[1][1] # EVT_ARG_NAME

\* C8: a drain that has read at least one trigger line starts exactly one
\* reconciler run, one that has read none starts none, and no run is started
\* before readline has reported the empty pipe
C8_OneRunPerDrain ==
    /\ evt.pc = "return" => evt.runs = (IF evt.ntrig >= 1 THEN 1 ELSE 0)
    /\ evt.pc \in {"reading", "drained"} => evt.runs = 0
    /\ evt.runs > 0 => evt.drained

C8_Witness ==
    /\ evt.pc = "return"
    /\ evt.ntrig >= 2
    /\ evt.nlines > evt.ntrig
    /\ evt.runs = 1

\* C9: in the stored configuration and in every daemon's configuration at
\* most one assignment of a resource has OVERWRITE in its target state
C9_OneOverwrite ==
    \A r \in ResNames :
        /\ Cardinality(Overwriting(disk.conf) \cap AssgOfRes(disk.conf, r)) <= 1
        /\ \A d \in Daemons :
             Cardinality(Overwriting(mem[d]) \cap AssgOfRes(mem[d], r)) <= 1

C9_Witness ==
    \E d \in Daemons, k \in NodeNames \X ResNames :
        /\ pc[d] = "done"
        /\ rc[d] = <<DM_SUCCESS>>
        /\ call[d].overwrite0 # {}
        /\ k \notin call[d].overwrite0
        /\ Overwriting(mem[d]) = {k}
        /\ Overwriting(disk.conf) = {k}
        /\ call[d].overwrite0 \subseteq DOMAIN mem[d].assg

\* C10: no assignment of the stored configuration or of a daemon's
\* configuration has OVERWRITE together with DISKLESS or with DISCARD in its
\* target state
C10_NoConflictingFlags ==
    \A conf \in {disk.conf} \cup {mem[d] : d \in Daemons} :
        \A k \in DOMAIN conf.assg :
            /\ ~({FLAG_OVERWRITE, FLAG_DISKLESS} \subseteq conf.assg[k].tstate)
            /\ ~({FLAG_OVERWRITE, FLAG_DISCARD} \subseteq conf.assg[k].tstate)

\* C11: an assign or a modify_state whose target flags hold OVERWRITE
\* together with DISKLESS or with DISCARD, and which finds the objects it
\* names, returns EINVAL; it changes neither the daemon's configuration nor
\* the stored one
C11_ConflictRejected ==
    [][\A d \in Daemons :
          (/\ pc[d] = "begun"
           /\ pc'[d] = "done"
           /\ persist[d]
           /\ call'[d].op \in {"assign", "modify_state"}
           /\ "conflict" \in call'[d].req
           /\ rc'[d] \notin {<<DM_ENOENT>>, <<DM_EEXIST>>})
          => /\ rc'[d] = <<DM_EINVAL>>
             /\ mem'[d] = mem[d]
             /\ disk' = disk]_vars

\* the stored configuration and the configurations of the daemons
Confs == {disk.conf} \cup {mem[d] : d \in Daemons}

\* C12: in every configuration the port of every resource lies in
\* DEFAULT_MIN_PORT_NR..MaxPortNr and no two resources have the same port
C12_PortsUniqueInRange ==
    \A conf \in Confs :
        /\ \A r \in DOMAIN conf.res :
               conf.res[r].port \in DEFAULT_MIN_PORT_NR..MaxPortNr
        /\ \A r1, r2 \in DOMAIN conf.res :
               conf.res[r1].port = conf.res[r2].port => r1 = r2

C15_NodeIdsOfNodes ==
    /\ \A conf \in Confs :
          /\ \A n \in DOMAIN conf.nodes : conf.nodes[n].node_id \in 0..MaxNodeId
          /\ \A n1, n2 \in DOMAIN conf.nodes :
                conf.nodes[n1].node_id = conf.nodes[n2].node_id => n1 = n2
    /\ \A d \in Daemons :
          (pc[d] = "begun" /\ persist[d]) =>
              \A n \in Numbers.nodes, has_addr, ctrl_ok \in BOOLEAN :
                  LET c == create_node(Memory(d, NoIter), d, n, has_addr,
                                       ctrl_ok, TRUE)
                  IN  get_free_drbdctrl_node_id(mem[d]) = -1 =>
                          /\ (n \notin DOMAIN mem[d].nodes /\ has_addr)
                                 => c.rc = <<DM_ENODEID>>
                          /\ c.rc # << >>
                          /\ c.m.conf = mem[d]
                          /\ c.img = << >>

C15_Witness ==
    \E d \in Daemons :
        /\ pc[d] = "done"
        /\ call[d].op = "create_node"
        /\ rc[d] = <<DM_ENODEID>>
        /\ "gamma" \in DOMAIN mem[d].nodes
        /\ mem[d].nodes["gamma"].node_id = 0
        /\ disk.conf.nodes = mem[d].nodes

\* the ports of DEFAULT_MIN_PORT_NR..MaxPortNr that no resource of conf uses
FreePorts(conf) ==
    (DEFAULT_MIN_PORT_NR..MaxPortNr) \ {conf.res[r].port : r \in DOMAIN conf.res}

\* C16: create_resource with port 'auto' for a new name gives the resource
\* the smallest port of DEFAULT_MIN_PORT_NR..MaxPortNr that no resource uses,
\* whatever the order the resources were created in; when every port of the
\* range is in use it returns EPORT, creates no resource and saves nothing
C16_SmallestFreePort ==
    \A d \in Daemons :
        (pc[d] = "begun" /\ persist[d]) =>
            \A r \in Numbers.res \ DOMAIN mem[d].res :
                LET c == create_resource(Memory(d, NoIter), r, RES_PORT_NR_AUTO,
                                         TRUE, TRUE)
                    free == FreePorts(mem[d])
                IN  IF free = {}
                    THEN /\ c.rc = <<DM_EPORT>>
                         /\ c.m.conf = mem[d]
                         /\ c.img = << >>
                    ELSE /\ c.rc = << >>
                         /\ DOMAIN c.m.conf.res = DOMAIN mem[d].res \cup {r}
                         /\ c.m.conf.res[r].port \in free
                         /\ \A y \in free : c.m.conf.res[r].port <= y
                         /\ c.img = <<c.m.conf>>

\* 'auto' has filled the hole a removed resource left, and a later 'auto'
\* has found the range full
C16_Witness ==
    \E d \in Daemons :
        /\ pc[d] = "done"
        /\ call[d].op = "create_resource"
        /\ "auto" \in call[d].req
        /\ rc[d] = <<DM_EPORT>>
        /\ DOMAIN mem[d].res = {"r1", "r2"}
        /\ mem[d].res["r1"].port = MaxPortNr
        /\ mem[d].res["r2"].port = DEFAULT_MIN_PORT_NR

\* C17: in every configuration the node and the resource of every assignment
\* exist
C17_AssignmentEndpoints ==
    \A conf \in Confs :
        \A k \in DOMAIN conf.assg :
            k[1] \in DOMAIN conf.nodes /\ k[2] \in DOMAIN conf.res

\* a node that had assignments has been removed by force while another
\* node keeps its assignment
C17_Witness ==
    \E d \in Daemons :
        /\ pc[d] = "done"
        /\ call[d].op = "remove_node"
        /\ call[d].req = {"force", "assigned"}
        /\ rc[d] = <<DM_SUCCESS>>
        /\ mem[d].assg # EmptyMap
        /\ disk.conf = mem[d]

\* C19 as claimed: an unforced remove_node of a node that has assignments
\* succeeds, leaves the node in the configuration with REMOVE set, and leaves
\* none of the node's assignments with DEPLOY in its target state
C19_RemoveNodeKeepsNode ==
    \A d \in Daemons :
        (pc[d] = "begun" /\ persist[d]) =>
            \A n \in DOMAIN mem[d].nodes, ok \in BOOLEAN :
                LET c == remove_node(Memory(d, NoIter), d, n, FALSE, ok, TRUE)
                IN  AssgOfNode(mem[d], n) # {} =>
                        /\ c.rc = << >>
                        /\ n \in DOMAIN c.m.conf.nodes
                        /\ FLAG_REMOVE \in c.m.conf.nodes[n].state
                        /\ \A k \in AssgOfNode(c.m.conf, n) :
                               FLAG_DEPLOY \notin c.m.conf.assg[k].tstate

\* C19 as amended: an unforced remove_node of a node that has assignments
\* succeeds and leaves none of the node's assignments with DEPLOY in its
\* target state; the node, if it stays, has REMOVE set, and it stays while
\* one of its assignments is left; it is gone after the call only if none
\* of its assignments was deployed or the reconciler pass of the call, on
\* the node itself, has undeployed them
C19_RemoveNodeMarks ==
    \A d \in Daemons :
        (pc[d] = "begun" /\ persist[d]) =>
            \A n \in DOMAIN mem[d].nodes, ok \in BOOLEAN :
                LET c == remove_node(Memory(d, NoIter), d, n, FALSE, ok, TRUE)
                    left == AssgOfNode(c.m.conf, n)
                IN  AssgOfNode(mem[d], n) # {} =>
                        /\ c.rc = << >>
                        /\ left \subseteq AssgOfNode(mem[d], n)
                        /\ \A k \in left :
                               FLAG_DEPLOY \notin c.m.conf.assg[k].tstate
                        /\ n \in DOMAIN c.m.conf.nodes
                               => FLAG_REMOVE \in c.m.conf.nodes[n].state
                        /\ n \notin DOMAIN c.m.conf.nodes
                               => /\ left = {}
                                  /\ \/ n = d /\ ok
                                     \/ \A k \in AssgOfNode(mem[d], n) :
                                            ~is_deployed(mem[d], k)

\* an unforced remove_node has marked a node whose assignment is deployed
C19_Witness ==
    \E d \in Daemons, n \in Numbers.nodes :
        /\ pc[d] = "done"
        /\ call[d].op = "remove_node"
        /\ call[d].req = {"assigned"}
        /\ rc[d] = <<DM_SUCCESS>>
        /\ n \in DOMAIN mem[d].nodes
        /\ FLAG_REMOVE \in mem[d].nodes[n].state
        /\ AssgOfNode(mem[d], n) # {}
        /\ \A k \in AssgOfNode(mem[d], n) :
               /\ FLAG_DEPLOY \notin mem[d].assg[k].tstate
               /\ FLAG_DEPLOY \in mem[d].assg[k].cstate
        /\ disk.conf = mem[d]

\* C13: after create_volume calls with an automatic or an explicit minor and
\* removals that succeeded, the minor number of every volume lies in
\* [min_minor_nr, MINOR_NR_MAX] and no two volumes of the cluster share one
C13_MinorsUniqueInRange ==
    \A d \in Daemons :
        (pc[d] = "done" /\ rc[d] = <<DM_SUCCESS>>) =>
            \A v \in DOMAIN mem[d].vols :
                /\ mem[d].vols[v].minor \in DEFAULT_MIN_MINOR_NR..MaxMinorNr
                /\ \A u \in DOMAIN mem[d].vols :
                       mem[d].vols[u].minor = mem[d].vols[v].minor => u = v

\* C18: in every configuration, stored or in memory, every volume state of
\* an assignment belongs to a volume of the assignment's resource
C18_VolumeStatesOfVolumes ==
    \A conf \in Confs :
        \A s \in DOMAIN conf.vstate : <<s[2], s[3]>> \in DOMAIN conf.vols

\* an unforced remove_volume of volume 0 has succeeded: the cleanup has taken
\* the volume from its resource, whose assignments keep the states of volume 1
C18_Witness ==
    /\ pc["alpha"] = "done"
    /\ rc["alpha"] = <<DM_SUCCESS>>
    /\ call["alpha"].op = "remove_volume"
    /\ "force" \notin call["alpha"].req
    /\ AssgOfRes(mem["alpha"], "r0") # {}
    /\ DOMAIN mem["alpha"].vols = {<<"r0", 1>>}
    /\ FLAG_REMOVE \notin mem["alpha"].vols[<<"r0", 1>>].state
    /\ \A k \in AssgOfRes(mem["alpha"], "r0") :
           VolStatesOf(mem["alpha"], k) = {<<k[1], k[2], 1>>}

\* the objects of a configuration: nodes, resources, volumes, assignments
\* and volume states
ObjectsOf(conf) ==
    <<DOMAIN conf.nodes, DOMAIN conf.res, DOMAIN conf.vols, DOMAIN conf.assg,
      DOMAIN conf.vstate>>

\* C20: from every configuration a handler finds, a second cleanup right
\* after a first one leaves the nodes, resources, volumes, assignments and
\* volume states as the first one left them
C20_CleanupIdempotent ==
    \A d \in Daemons :
        (pc[d] = "begun" /\ persist[d]) =>
            \A iter \in Volumes.iters :
                LET once == cleanup(Memory(d, iter), d)
                IN  ObjectsOf(cleanup(once, d).conf) = ObjectsOf(once.conf)

\* the configurations cleanup is run on, from the configuration a handler
\* finds: that configuration itself, and what the unforced remove_node and
\* remove_resource hand to the deletions of perform_changes
CleanupInputs(d, iters) ==
    {Memory(d, iter) : iter \in iters}
    \cup {reconcile(node_remove(undeploy_all(Memory(d, iter),
                                              AssgOfNode(mem[d], n)), n), d, ok) :
              n \in {x \in DOMAIN mem[d].nodes : AssgOfNode(mem[d], x) # {}},
              ok \in BOOLEAN, iter \in iters}
    \cup {reconcile(res_remove(undeploy_all(Memory(d, iter),
                                             AssgOfRes(mem[d], r)), r), d, ok) :
              r \in {x \in DOMAIN mem[d].res : AssgOfRes(mem[d], x) # {}},
              ok \in BOOLEAN, iter \in iters}

\* C21: cleanup deletes exactly the assignments that are neither deployed nor
\* to be deployed: none of them is left when it returns, and every
\* assignment with DEPLOY in its current or its target state is still there,
\* unchanged
C21_CleanupAssignments ==
    \A d \in Daemons :
        (pc[d] = "begun" /\ persist[d]) =>
            \A m0 \in CleanupInputs(d, Volumes.iters) :
                LET after == cleanup(m0, d).conf
                IN  /\ DOMAIN after.assg =
                           {k \in DOMAIN m0.conf.assg :
                               \/ FLAG_DEPLOY \in m0.conf.assg[k].cstate
                               \/ FLAG_DEPLOY \in m0.conf.assg[k].tstate}
                    /\ \A k \in DOMAIN after.assg : after.assg[k] = m0.conf.assg[k]

\* an unforced remove_node of beta has succeeded: the cleanup has deleted the
\* assignment of beta, which was not deployed, and has kept the assignment
\* of alpha, which is
C21_Witness ==
    /\ pc["alpha"] = "done"
    /\ rc["alpha"] = <<DM_SUCCESS>>
    /\ call["alpha"].op = "remove_node"
    /\ call["alpha"].req = {"assigned"}
    /\ "beta" \notin DOMAIN mem["alpha"].nodes
    /\ DOMAIN mem["alpha"].assg = {<<"alpha", "r0">>}
    /\ FLAG_DEPLOY \in mem["alpha"].assg[<<"alpha", "r0">>].cstate

\* C22: cleanup deletes a node only if it is marked REMOVE and none of its
\* assignments is left after the deletion of the assignments, and a resource
\* only if it is marked REMOVE and has no assignment left; if a node has been
\* deleted, the configuration of the control resource has been written anew
\* and adjusted and every remaining node but the instance's is flagged UPDATE
C22_CleanupNodesResources ==
    \A d \in Daemons :
        (pc[d] = "begun" /\ persist[d]) =>
            \A m0 \in CleanupInputs(d, Numbers.iters) :
                LET after == cleanup(m0, d)
                    gone_nodes == (DOMAIN m0.conf.nodes) \ DOMAIN after.conf.nodes
                    gone_res == (DOMAIN m0.conf.res) \ DOMAIN after.conf.res
                IN  /\ \A n \in gone_nodes :
                           /\ FLAG_REMOVE \in m0.conf.nodes[n].state
                           /\ AssgOfNode(after.conf, n) = {}
                    /\ \A r \in gone_res :
                           /\ FLAG_REMOVE \in m0.conf.res[r].state
                           /\ AssgOfRes(after.conf, r) = {}
                    /\ DOMAIN after.conf.nodes \subseteq DOMAIN m0.conf.nodes
                    /\ DOMAIN after.conf.res \subseteq DOMAIN m0.conf.res
                    /\ gone_nodes # {} =>
                           /\ after.ctl = <<"configure", "adjust">>
                           /\ \A n \in (DOMAIN after.conf.nodes) \ {d} :
                                  FLAG_UPDATE \in after.conf.nodes[n].state
                    /\ gone_nodes = {} => after.ctl = << >>

\* an unforced remove_node of alpha, which had an assignment, has succeeded:
\* the cleanup has deleted the assignment and alpha, and has flagged beta,
\* which is not marked, for an update
C22_Witness ==
    /\ pc["alpha"] = "done"
    /\ rc["alpha"] = <<DM_SUCCESS>>
    /\ call["alpha"].op = "remove_node"
    /\ call["alpha"].req = {"assigned"}
    /\ DOMAIN mem["alpha"].nodes = {"beta"}
    /\ mem["alpha"].nodes["beta"].state = {FLAG_UPDATE}
    /\ DOMAIN mem["alpha"].assg = {}
    /\ DOMAIN mem["alpha"].res # {}

\* C23: cleanup deletes a volume (of a resource that it does not delete as a
\* whole) if and only if the volume is marked REMOVE and no assignment of its
\* resource has a volume state of it with DEPLOY in the current state, in
\* whatever order the assignments are visited
C23_CleanupVolumes ==
    \A d \in Daemons :
        (pc[d] = "begun" /\ persist[d]) =>
            \A m0 \in CleanupInputs(d, Volumes.iters) :
                LET after == cleanup(m0, d).conf
                IN  /\ DOMAIN after.vols \subseteq DOMAIN m0.conf.vols
                    /\ \A v \in {x \in DOMAIN m0.conf.vols : x[1] \in DOMAIN after.res} :
                           v \notin DOMAIN after.vols <=>
                               /\ FLAG_REMOVE \in m0.conf.vols[v].state
                               /\ \A s \in DOMAIN m0.conf.vstate :
                                      <<s[2], s[3]>> = v =>
                                          FLAG_DEPLOY \notin m0.conf.vstate[s].cstate

\* C24 as stated: an unforced unassign of a deployed assignment leaves the
\* assignment in place, with DEPLOY cleared in the target state and set in
\* the current state, and leaves the resource, unmarked; a forced unassign or
\* the unassign of an assignment that is not deployed removes the assignment
C24_UnassignKeepsDeployed ==
    \A d \in Daemons :
        (pc[d] = "begun" /\ persist[d]) =>
            \A k \in DOMAIN mem[d].assg, force, ok \in BOOLEAN, iter \in Volumes.iters :
                LET after == unassign(Memory(d, iter), d, k[1], k[2], force, ok, TRUE).m.conf
                IN  IF ~force /\ is_deployed(mem[d], k)
                    THEN /\ k \in DOMAIN after.assg
                         /\ FLAG_DEPLOY \notin after.assg[k].tstate
                         /\ FLAG_DEPLOY \in after.assg[k].cstate
                         /\ k[2] \in DOMAIN after.res
                         /\ FLAG_REMOVE \notin after.res[k[2]].state
                    ELSE k \notin DOMAIN after.assg

\* C24, amended: the unforced unassign of a deployed assignment clears DEPLOY
\* in the target state and leaves a resource that is not marked REMOVE in
\* place, unmarked; the assignment stays, deployed, unless it is an assignment of the server's own node and
\* the reconciliation of the same call has undeployed it, and only then is it
\* deleted; a forced unassign or the unassign of an assignment that is not
\* deployed removes the assignment
C24_UnassignUndeploys ==
    \A d \in Daemons :
        (pc[d] = "begun" /\ persist[d]) =>
            \A k \in DOMAIN mem[d].assg, force, ok \in BOOLEAN, iter \in Volumes.iters :
                LET after == unassign(Memory(d, iter), d, k[1], k[2], force, ok, TRUE).m.conf
                IN  IF ~force /\ is_deployed(mem[d], k)
                    THEN /\ k \in DOMAIN after.assg =>
                                /\ FLAG_DEPLOY \notin after.assg[k].tstate
                                /\ FLAG_DEPLOY \in after.assg[k].cstate
                         /\ k \in DOMAIN after.assg <=> ~(k[1] = d /\ ok)
                         /\ FLAG_REMOVE \notin mem[d].res[k[2]].state =>
                                /\ k[2] \in DOMAIN after.res
                                /\ FLAG_REMOVE \notin after.res[k[2]].state
                    ELSE k \notin DOMAIN after.assg

\* an unforced unassign of the deployed assignment of alpha has succeeded and
\* has left the assignment, deployed and not to be deployed
C24_Witness ==
    /\ pc["alpha"] = "done"
    /\ rc["alpha"] = <<DM_SUCCESS>>
    /\ call["alpha"].op = "unassign"
    /\ call["alpha"].req = {"deployed"}
    /\ <<"alpha", "r0">> \in DOMAIN mem["alpha"].assg
    /\ FLAG_DEPLOY \notin mem["alpha"].assg[<<"alpha", "r0">>].tstate
    /\ FLAG_DEPLOY \in mem["alpha"].assg[<<"alpha", "r0">>].cstate
    /\ FLAG_REMOVE \notin mem["alpha"].res["r0"].state

\* the states that say what is to become of the objects: the flags of the
\* nodes, resources and volumes, the target states of the assignments and of
\* the volume states
Targets(conf) ==
    <<[n \in DOMAIN conf.nodes |-> conf.nodes[n].state],
      [r \in DOMAIN conf.res |-> conf.res[r].state],
      [v \in DOMAIN conf.vols |-> conf.vols[v].state],
      [k \in DOMAIN conf.assg |-> conf.assg[k].tstate],
      [s \in DOMAIN conf.vstate |-> conf.vstate[s].tstate]>>

\* C25 as stated: a poke that succeeds raises the serial by exactly one and
\* saves a configuration with another hash, and leaves the nodes, resources,
\* volumes and assignments and their target states as they were
C25_PokeOnlyBumps ==
    \A d \in Daemons :
        (pc[d] = "begun" /\ persist[d]) =>
            \A ok \in BOOLEAN, iter \in Volumes.iters :
                LET res == run_changes(Memory(d, iter), d, TRUE, ok, TRUE)
                    after == res.m.conf
                IN  /\ after.serial = mem[d].serial + 1
                    /\ res.img = <<after>>
                    /\ Hash(after) # disk.hash
                    /\ ObjectsOf(after) = ObjectsOf(mem[d])
                    /\ Targets(after) = Targets(mem[d])

\* C25, amended: a poke that succeeds raises the serial by exactly one and
\* saves a configuration with another hash; it creates no object and deletes
\* only objects that were to go (an assignment without DEPLOY in its target
\* state, a node, resource or volume marked REMOVE, a volume state without
\* DEPLOY in its target state, of a volume marked REMOVE or of a deleted
\* assignment); of what remains the target states are as they were, but for
\* the UPDATE flag of the nodes
C25_PokeRunsChanges ==
    \A d \in Daemons :
        (pc[d] = "begun" /\ persist[d]) =>
            \A ok \in BOOLEAN, iter \in Volumes.iters :
                LET res == run_changes(Memory(d, iter), d, TRUE, ok, TRUE)
                    before == mem[d]
                    after == res.m.conf
                IN  /\ after.serial = before.serial + 1
                    /\ res.img = <<after>>
                    /\ Hash(after) # disk.hash
                    /\ \A n \in DOMAIN after.nodes :
                           /\ n \in DOMAIN before.nodes
                           /\ after.nodes[n].state \ {FLAG_UPDATE} =
                                  before.nodes[n].state \ {FLAG_UPDATE}
                    /\ \A r \in DOMAIN after.res :
                           r \in DOMAIN before.res /\ after.res[r].state = before.res[r].state
                    /\ \A v \in DOMAIN after.vols :
                           v \in DOMAIN before.vols /\ after.vols[v].state = before.vols[v].state
                    /\ \A k \in DOMAIN after.assg :
                           k \in DOMAIN before.assg /\ after.assg[k].tstate = before.assg[k].tstate
                    /\ \A s \in DOMAIN after.vstate :
                           s \in DOMAIN before.vstate /\ after.vstate[s].tstate = before.vstate[s].tstate
                    /\ \A n \in (DOMAIN before.nodes) \ DOMAIN after.nodes :
                           FLAG_REMOVE \in before.nodes[n].state
                    /\ \A r \in (DOMAIN before.res) \ DOMAIN after.res :
                           FLAG_REMOVE \in before.res[r].state
                    /\ \A v \in (DOMAIN before.vols) \ DOMAIN after.vols :
                           FLAG_REMOVE \in before.vols[v].state \/ v[1] \notin DOMAIN after.res
                    /\ \A k \in (DOMAIN before.assg) \ DOMAIN after.assg :
                           FLAG_DEPLOY \notin before.assg[k].tstate
                    /\ \A s \in (DOMAIN before.vstate) \ DOMAIN after.vstate :
                           \/ FLAG_DEPLOY \notin before.vstate[s].tstate
                           \/ FLAG_REMOVE \in before.vols[<<s[2], s[3]>>].state
                           \/ <<s[1], s[2]>> \notin DOMAIN after.assg

\* a poke has succeeded that found the assignment of alpha deployed and not
\* to be: the serial is one higher, the configuration is saved, and the
\* assignment has been undeployed and deleted
C25_Witness ==
    /\ pc["alpha"] = "done"
    /\ rc["alpha"] = <<DM_SUCCESS>>
    /\ call["alpha"].op = "poke"
    /\ call["alpha"].req = {"pending"}
    /\ call["alpha"].saved
    /\ call["alpha"].serial1 = call["alpha"].serial0 + 1
    /\ AssgOfNode(mem["alpha"], "alpha") = {}
    /\ AssgOfNode(mem["alpha"], "beta") # {}

\* the handlers that open a session with begin_modify_conf
SessionHandlers ==
    Mutators \cup {"create_volume", "remove_volume", "connect", "attach"}

\* C26: a mutator that got no session from begin_modify_conf returns
\* EPERSIST and does not return SUCCESS
C26_NoSessionIsEPERSIST ==
    \A d \in Daemons :
        (pc[d] = "done" /\ ~persist[d] /\ call[d].op \in SessionHandlers) =>
            /\ \E i \in DOMAIN rc[d] : rc[d][i] = DM_EPERSIST
            /\ \A i \in DOMAIN rc[d] : rc[d][i] # DM_SUCCESS

\* C27: a mutator that returns EPERSIST, for want of a session or because
\* the save failed, leaves the configuration in memory (nodes, resources,
\* volumes, assignments, serial) as it was before the call
C27_EPERSISTAborts ==
    [][\A d \in Daemons :
          (/\ pc[d] = "begun"
           /\ pc'[d] = "done"
           /\ call'[d].op \in SessionHandlers
           /\ \E i \in DOMAIN rc'[d] : rc'[d][i] = DM_EPERSIST)
          => mem'[d] = mem[d]]_vars

\* The handlers that call DrbdManager.perform_changes()
Reconcilers ==
    {"create_volume", "remove_volume", "assign", "unassign", "modify_state",
     "connect", "attach", "auto_deploy", "remove_node", "remove_resource"}

\* Position of the first call of name in a log of calls, 0 if there is none
FirstCall(log, name) ==
    IF \E i \in DOMAIN log : log[i] = name
    THEN CHOOSE i \in DOMAIN log :
             log[i] = name /\ \A j \in DOMAIN log : log[j] = name => i <= j
    ELSE 0

\* C28 as stated: a handler that requests a reconcile pass has saved the
\* configuration before it calls perform_changes(), and holds the lock at
\* both calls
C28_SaveBeforeReconcile ==
    \A d \in Daemons :
        (/\ pc[d] = "done"
         /\ call[d].op \in Reconcilers
         /\ FirstCall(call[d].log, "perform_changes") > 0)
        => /\ d \in lock
           /\ FirstCall(call[d].log, "save_conf_data") > 0
           /\ FirstCall(call[d].log, "save_conf_data")
                  < FirstCall(call[d].log, "perform_changes")

\* C28, amended: a handler that requests a reconcile pass calls
\* perform_changes() first and save_conf_data() after it, once each, and holds
\* the lock at both calls
C28_ReconcileBeforeSave ==
    \A d \in Daemons :
        (/\ pc[d] = "done"
         /\ call[d].op \in Reconcilers
         /\ FirstCall(call[d].log, "perform_changes") > 0)
        => /\ d \in lock
           /\ call[d].log = <<"perform_changes", "save_conf_data">>

C28_Witness ==
    \E d \in Daemons :
        /\ pc[d] = "done"
        /\ call[d].op = "unassign"
        /\ call[d].log = <<"perform_changes", "save_conf_data">>
        /\ call[d].saved
        /\ d \in lock
        /\ disk.conf = mem[d]

\* The assignments of resource r that are targeted as full replicas
FullReplicas(conf, r) ==
    {k \in AssgOfRes(conf, r) :
        /\ FLAG_DEPLOY \in conf.assg[k].tstate
        /\ FLAG_DISKLESS \notin conf.assg[k].tstate}

\* The assignments of resource r that the REDUCE branch of auto_deploy hands
\* to the deployer, after it has undeployed the waiting ones
Deployed(m, r, c) ==
    LET w == undeploy_waiting(m, AssgOfRes(m.conf, r),
                              assigned_count(m.conf, r), c)
    IN  {k \in AssgOfRes(w.m.conf, r) :
            /\ FLAG_DEPLOY \in w.m.conf.assg[k].tstate
            /\ FLAG_DEPLOY \in w.m.conf.assg[k].cstate}

\* The number of assignments the deployer is asked to select
Surplus(m, r, c) ==
    undeploy_waiting(m, AssgOfRes(m.conf, r), assigned_count(m.conf, r), c).ctr - c

C30_RefusalsChangeNothing ==
    [][\A d \in Daemons :
          (/\ pc[d] = "idle" \/ (pc[d] = "begun" /\ persist[d])
           /\ pc'[d] = "done"
           /\ call'[d].op = "auto_deploy")
          => /\ "einval" \in call'[d].req
                => (rc'[d] = <<DM_EINVAL>> /\ mem'[d] = mem[d] /\ disk' = disk)
             /\ "enodecnt" \in call'[d].req
                => /\ \E i \in DOMAIN rc'[d] : rc'[d][i] = DM_ENODECNT
                   /\ mem'[d] = mem[d]
                   /\ disk' = disk]_vars

\* What one step may do while init_events is in its termination loop
TermOrder ==
    LET p == proc
        q == proc'
        e == q.trace[Len(q.trace)]
        sent(t, sig) == \E i \in DOMAIN t : t[i][2] = sig
    IN  (p.pc = "term") =>
          /\ \/ q.stage = p.stage
             \/ q.stage = p.stage + 1
             \/ q.stage = TERM_STAGE_END /\ p.stage >= 2 /\ ~p.alive
          /\ (p.stage >= 2 /\ ~p.alive) =>
                /\ q.stage \in {p.stage, TERM_STAGE_END}
                /\ q.trace # p.trace => e[2] = "exited"
          /\ q.trace # p.trace =>
                /\ q.trace = Append(p.trace, e)
                /\ e[2] = "close" => (p.stage = 1 /\ p.trace = << >> /\ ~q.pipe)
                /\ e[2] = "SIGTERM" =>
                      (p.stage = 2 /\ p.alive /\ p.trace = << <<1, "close">> >>)
                /\ e[2] = "SIGKILL" =>
                      (p.stage = 4 /\ p.alive /\ sent(p.trace, "SIGTERM"))
                /\ e[2] = "exited" => (~p.alive /\ q.stage = TERM_STAGE_END)
          /\ (p.stage = TERM_STAGE_END /\ q.pc # p.pc) =>
                (q.pc = "spawn" /\ ~q.handle)

\* C31: the termination loop of init_events goes from stage to stage in
\* order and ends: the pipe is closed first, SIGTERM is sent only at stage 2
\* to a subprocess found alive, SIGKILL only at stage 4 to a subprocess found
\* alive and after SIGTERM, the loop ends when the subprocess is found to have
\* exited, and after the loop the handle is dropped and Popen is called
\* whether the subprocess has exited or not
C31_StagedTermination ==
    /\ [][TermOrder]_vars
    /\ (proc.pc = "term") ~> (proc.pc = "spawn")
    /\ (proc.pc = "spawn") ~> (proc.pc \in {"catchup", "sleep"})

C31_Witness ==
    /\ proc.pc = "catchup"
    /\ proc.stray
    /\ proc.retries = 0
    /\ proc.trace = << <<1, "close">>, <<2, "SIGTERM">>, <<4, "SIGKILL">> >>

\* C32: after a hang-up of the pipe restart_events tries init_events until
\* Popen succeeds and logs the failure once at most; when Popen succeeds in
\* the end, the callback returns with a subprocess handle and both watches
\* registered and with exactly one reconciler run made, and the watches of
\* the old pipe stay unregistered from the first attempt on
C32_TracingReestablished ==
    /\ [](proc.logged = IF proc.retries >= 1 THEN 1 ELSE 0)
    /\ [](proc.pc \in {"term", "spawn", "sleep"} => (~proc.hup_h /\ ~proc.in_h))
    /\ [](proc.restarting => proc.runs = 0)
    /\ proc.restarting ~> (/\ proc.pc = "idle"
                           /\ ~proc.restarting
                           /\ proc.handle /\ proc.in_h /\ proc.hup_h
                           /\ proc.runs = 1)

C32_Witness ==
    /\ proc.pc = "idle"
    /\ proc.runs = 1
    /\ proc.retries = MaxRetries
    /\ proc.logged = 1
    /\ proc.handle /\ proc.alive /\ proc.hup_h /\ proc.in_h

\* C33: when the daemon has exited through shutdown, the control resource is
\* down, the pipe of the events subprocess was closed by the daemon, and no
\* events subprocess is running any more
C33_NoChildOutlivesDaemon ==
    proc.pc = "exited" =>
        /\ ~proc.ctrl_up
        /\ ~proc.pipe
        /\ ~(proc.handle /\ proc.alive)
        /\ ~proc.stray

\* the state of an assignment and of its volume states
StateOf(conf, k) ==
    [assg |-> conf.assg[k],
     vols |-> [s \in VolStatesOf(conf, k) |-> conf.vstate[s]]]

\* assignment k has come out of a pass as it comes out of the pass of conf
SameOutcome(one, all, k) ==
    /\ k \in DOMAIN one.assg <=> k \in DOMAIN all.assg
    /\ k \in DOMAIN one.assg =>
          /\ one.assg[k].cstate = all.assg[k].cstate
          /\ one.assg[k].tstate = all.assg[k].tstate
          /\ \A s \in VolStatesOf(one, k) :
                one.vstate[s].cstate = all.vstate[s].cstate

\* C34: when the backend fails for some assignments of a reconciler pass,
\* each of them keeps its state (cstate and tstate of the assignment and of
\* its volume states), every other assignment of the node comes out of the
\* pass as it does from a pass without failures, and a later pass without
\* failures brings the failed ones to the same outcome
C34_FailureKeepsState ==
    \A d \in Daemons :
        (pc[d] = "begun" /\ persist[d]) =>
            \A failing \in SUBSET AssgOfNode(mem[d], d) :
                LET m == Memory(d, NoIter)
                    one == perform_changes_some(m, d, failing).conf
                    all == perform_changes_some(m, d, {}).conf
                    again == perform_changes_some(
                                 perform_changes_some(m, d, failing), d, {}).conf
                IN  /\ \A k \in failing :
                          /\ k \in DOMAIN one.assg
                          /\ StateOf(one, k) = StateOf(m.conf, k)
                    /\ \A k \in AssgOfNode(m.conf, d) \ failing :
                          SameOutcome(one, all, k)
                    /\ \A k \in AssgOfNode(m.conf, d) :
                          SameOutcome(again, all, k)

C34_Witness ==
    /\ pc["alpha"] = "done"
    /\ call["alpha"].op = "run"
    /\ call["alpha"].req = {"failed", "reconciled"}
    /\ call["alpha"].saved
    /\ \E k1, k2 \in AssgOfNode(disk.conf, "alpha") :
          /\ FLAG_DEPLOY \in disk.conf.assg[k1].tstate
          /\ ~is_deployed(disk.conf, k1)
          /\ is_deployed(disk.conf, k2)

\* assignment k of the stored configuration waits for its deployment, waits
\* for its undeployment, is gone
Waiting(k) ==
    /\ k \in DOMAIN disk.conf.assg
    /\ FLAG_DEPLOY \in disk.conf.assg[k].tstate
    /\ ~is_deployed(disk.conf, k)

Leaving(k) ==
    /\ k \in DOMAIN disk.conf.assg
    /\ FLAG_DEPLOY \notin disk.conf.assg[k].tstate
    /\ is_deployed(disk.conf, k)

Gone(k) == k \notin DOMAIN disk.conf.assg

\* C35: with a backend that works and a peer that calls no handler any more
\* in the end, an assignment of the node of a daemon that keeps receiving
\* triggers does not stay different from its target on the control volume: one
\* that waits for its deployment gets cstate DEPLOY unless it is unassigned
\* first, one that waits for its undeployment loses cstate DEPLOY and is
\* removed from the configuration
C35_Convergence ==
    <>[](pc["beta"] = "idle") =>
        \A k \in Sound.nodes \X Sound.res :
            /\ Waiting(k) ~> ((~Gone(k) /\ is_deployed(disk.conf, k)) \/ Gone(k))
            /\ Leaving(k) ~> Gone(k)

C35_Witness ==
    /\ pc["alpha"] = "done"
    /\ call["alpha"].op = "run"
    /\ call["alpha"].req = {"reconciled"}
    /\ call["alpha"].saved
    /\ Gone(<<"alpha", "r0">>)
    /\ <<"alpha", "r0">> \in DOMAIN synced["beta"].assg

\* a run of drbd_event / restart_events that found the stored hash equal to
\* the hash in memory leaves the daemon and the control volume as they are
SkipsOnEqualHash ==
    \A d \in Daemons :
        (/\ pc[d] = "begun"
         /\ pc'[d] = "done"
         /\ call'[d].op = "run"
         /\ call[d].equal0) =>
            /\ ~call[d].reloaded
            /\ mem'[d] = mem[d]
            /\ conf_hash'[d] = conf_hash[d]
            /\ disk' = disk
            /\ ~call'[d].saved

\* C36: a run with override_hash = false that finds the stored hash equal to
\* the hash in memory has reloaded nothing, changes nothing in memory (no
\* cstate) and saves nothing; and a daemon that has saved holds the hash of
\* what it stored, so that its own write alone never makes a later run
\* reconcile or save
C36_EqualHashSkips ==
    /\ [][SkipsOnEqualHash]_vars
    /\ [](\A d \in Daemons :
             (pc[d] = "done" /\ call[d].saved) =>
                 (conf_hash[d] # NoHash /\ conf_hash[d] = disk.hash))

C36_Witness ==
    /\ pc["alpha"] = "done"
    /\ call["alpha"].op = "run"
    /\ call["alpha"].equal0
    /\ call["alpha"].req = {"reconciled"}
    /\ synced["alpha"] = disk.conf
    /\ \E k \in AssgOfNode(mem["alpha"], "alpha") :
          /\ FLAG_DEPLOY \in mem["alpha"].assg[k].tstate
          /\ ~is_deployed(mem["alpha"], k)

\* C37: after a mutator has returned SUCCESS, the configuration stored on the
\* control volume equals the configuration in the memory of the daemon
C37_StoredEqualsMemory ==
    \A d \in Daemons :
        (/\ pc[d] = "done"
         /\ call[d].op \in Mutators
         /\ rc[d] = <<DM_SUCCESS>>) =>
            disk.conf = mem[d]

\* C38: a daemon that has no transaction open and holds the hash of what is
\* stored on the control volume (no peer has written since its last load or
\* save) has the stored serial in memory
C38_SerialInStep ==
    \A d \in Daemons :
        (/\ pc[d] = "idle"
         /\ conf_hash[d] # NoHash
         /\ conf_hash[d] = disk.hash) =>
            mem[d].serial = disk.conf.serial

NoDisklessAttach(conf) ==
    \A s \in DOMAIN conf.vstate :
        (/\ <<s[1], s[2]>> \in DOMAIN conf.assg
         /\ FLAG_DISKLESS \in conf.assg[<<s[1], s[2]>>].tstate) =>
            FLAG_ATTACH \notin conf.vstate[s].tstate

\* C40: in the configuration of every daemon and in the stored configuration
\* no volume state of an assignment with tstate DISKLESS has tstate ATTACH
C40_DisklessNeverAttached ==
    /\ NoDisklessAttach(disk.conf)
    /\ \A d \in Daemons : NoDisklessAttach(mem[d])
=============================================================================
